---- MODULE Spec2Model ----
(***************************************************************************)
(* A model of llama-config-proxy: the predicate engine, the action         *)
(* pipeline, configuration validation/compilation, the request and         *)
(* response processors and the streaming processor.                        *)
(*                                                                         *)
(* JSON objects (Go map[string]any) are records [nil, m]: nil is TRUE for  *)
(* a nil map, m is the key -> value function.  Byte strings are "texts":   *)
(* records [kind, obj, canon, len] where kind tells what json.Unmarshal    *)
(* makes of the bytes, obj is the object they encode, canon tells whether  *)
(* the bytes are exactly what json.Marshal prints for that object, and len *)
(* is the number of bytes.                                                 *)
(***************************************************************************)
EXTENDS Integers, Sequences, FiniteSets, TLC

VARIABLES
    \* --- action pipeline, one pass of processActions, one action per step
    ops,            \* operations []ActionExec of the pass
    templates,      \* templates []*template.Template, aligned with ops
    data,           \* the body being mutated
    headers,        \* headers of the pass
    query,          \* query parameters of the pass
    appliedValues,  \* processActions' appliedValues
    anyApplied,     \* processActions' anyApplied
    opIdx,          \* loop index i (1-based), Len(ops)+1 when the range is exhausted
    ppc,            \* "loop" | "returned" | "panic"
    evaluated,      \* history: indices whose When was evaluated, in order
    executed,       \* history: indices that were not skipped, in order
    received,       \* history: data as handed to processActions
    bodyBefore,     \* history: data before the last executed action
    lastTmpl,       \* history: what the last executed action's template rendered
    \* --- configuration loading
    cfgRoutes,      \* the routes of the loaded file
    cfgState,       \* "off" | "parsed" | "loaded" | "invalid" | "running"
    cfgErr,         \* the error Load returned, "" without one
    \* --- request / response processors
    routes,         \* []config.Route of the proxy (validated, compiled)
    hpc,            \* "idle" | "requested" | "responded" | "panic"
    req,            \* the request: method, path, body text or none, content length
    fwd,            \* what is forwarded upstream after ModifyRequest
    ctxRoutes,      \* responseRouteContext.indices (routes by index)
    resp,           \* the upstream response
    out,            \* what ModifyResponse leaves for the client
    pipelineRuns,   \* history: number of processActions calls of the transaction
    \* --- streaming processor
    sRoutes,        \* routes handed to ModifyStreamingResponse
    upstream,       \* lines the scanner has not returned yet
    upstreamErr,    \* error scanner.Err() reports when the lines run out
    wpc,            \* worker: "off" | "scan" | "write" | "done" | "panic"
    pending,        \* writes of the current line still to do: <<[bytes, onFail]>>
    readerClosed,   \* the consumer closed pipeReader
    writerClosed,   \* "open" | "eof" | "error"
    bodyClosed,     \* originalBody.Close() was called
    consumed,       \* bytes the consumer has read, as a sequence of texts
    scanned,        \* history: lines returned by scanner.Scan(), in order
    emitted,        \* history: per scanned line, the chunks handed to the consumer
    failedAt,       \* history: for each failed pipeWriter.Write, the line it wrote
    \* --- transactions in flight on the same routes
    txns,           \* per transaction, the state of its pass over ops
    \* --- debug logging of headers
    logHeaders,     \* the header map handed to headersJSON
    logged,         \* what headersJSON returned, NoLog before the call
    \* --- repeated calls of BoolExpr.Evaluate
    evalArgs,       \* the node, body, header map and query map of the calls
    evalResults,    \* what the calls returned, in order
    \* --- config loading, include expansion
    files,          \* the config files on disk: path -> parsed nodes, in walk order
    loadStack,      \* the nested expandIncludes calls: file and position in it
    watchedFiles,   \* watchList.paths
    loadState       \* "idle", "loading", "config", "error" or "stackOverflow"

pipeVars   == <<ops, templates, data, headers, query, appliedValues, anyApplied, opIdx, ppc,
                evaluated, executed, received, bodyBefore, lastTmpl>>
cfgVars    == <<cfgRoutes, cfgState, cfgErr>>
httpVars   == <<routes, hpc, req, fwd, ctxRoutes, resp, out, pipelineRuns>>
streamVars == <<sRoutes, upstream, upstreamErr, wpc, pending, readerClosed,
                writerClosed, bodyClosed, consumed, scanned, emitted, failedAt>>
logVars    == <<logHeaders, logged>>
callVars   == <<evalArgs, evalResults>>
loadVars   == <<files, loadStack, watchedFiles, loadState>>
vars       == <<pipeVars, cfgVars, httpVars, streamVars, txns, logVars, callVars, loadVars>>

(***************************************************************************)
(* Values, maps and texts                                                  *)
(***************************************************************************)
Keys == {"a", "b"}
Vals == {"x", "y"}
\* A merge/default value of the configuration that encoding/json cannot
\* marshal (YAML .inf decodes to +Inf; json.Marshal rejects it).
Inf == "inf"
Deleted == "<deleted>"

EmptyFcn == [k \in {} |-> "x"]
EmptyMap == [nil |-> FALSE, m |-> EmptyFcn]
NilMap   == [nil |-> TRUE, m |-> EmptyFcn]
Obj(m)   == [nil |-> FALSE, m |-> m]

MapSet(m, k, v) == [j \in (DOMAIN m) \cup {k} |-> IF j = k THEN v ELSE m[j]]
MapDel(m, k)    == [j \in (DOMAIN m) \ {k} |-> m[j]]
\* maps.Copy(dst, src) and the "for k, v := range src { dst[k] = v }" loops
MapCopy(dst, src) == [j \in (DOMAIN dst) \cup (DOMAIN src) |->
                        IF j \in DOMAIN src THEN src[j] ELSE dst[j]]

\* All maps from a subset of ks to vs
MapsOver(ks, vs) == UNION {[d -> vs] : d \in SUBSET ks}

\* the element of a one-element set
Only(S) == CHOOSE x \in S : TRUE

\* Bytes of json.Marshal for single-character keys and string values:
\* {"a":"x","b":"y"} is 1 + 8n bytes, {} is 2.
CanonLen(m) == IF DOMAIN m = {} THEN 2 ELSE 1 + 8 * Cardinality(DOMAIN m)

ObjText(m)  == [kind |-> "object", obj |-> m, canon |-> TRUE, len |-> CanonLen(m)]
\* the same object printed otherwise (a space, another key order, an escape)
LooseObjText(m) == [kind |-> "object", obj |-> m, canon |-> FALSE, len |-> CanonLen(m) + 1]
NullText    == [kind |-> "null", obj |-> EmptyFcn, canon |-> TRUE, len |-> 4]
LooseNullText == [kind |-> "null", obj |-> EmptyFcn, canon |-> FALSE, len |-> 5]
ArrayText   == [kind |-> "array", obj |-> EmptyFcn, canon |-> TRUE, len |-> 3]
ScalarText  == [kind |-> "scalar", obj |-> EmptyFcn, canon |-> TRUE, len |-> 1]
InvalidText == [kind |-> "invalid", obj |-> EmptyFcn, canon |-> FALSE, len |-> 7]
EmptyText   == [kind |-> "empty", obj |-> EmptyFcn, canon |-> TRUE, len |-> 0]

\* json.Unmarshal(bytes, &m) with m a nil map[string]any: an object fills the
\* map, null leaves it nil without an error, everything else is an error.
Unmarshal(t) ==
    CASE t.kind = "object" -> [err |-> FALSE, data |-> Obj(t.obj)]
      [] t.kind = "null"   -> [err |-> FALSE, data |-> NilMap]
      [] OTHER             -> [err |-> TRUE, data |-> NilMap]

\* json.Marshal(m): fails on an unsupported value, prints null for a nil map.
Marshal(d) ==
    IF \E k \in DOMAIN d.m : d.m[k] = Inf
    THEN [err |-> TRUE, text |-> EmptyText]
    ELSE [err |-> FALSE, text |-> IF d.nil THEN NullText ELSE ObjText(d.m)]

(***************************************************************************)
(* Pattern matcher                                                         *)
(***************************************************************************)
\* the case of the letters is kept
LowerKeepsCase(s) == s

\* strings.ToLower on the strings of the model
Lower(s) ==
    CASE s = "X-Env" -> "x-env"
      [] s = "X-ENV" -> "x-env"
      [] s = "PROD"  -> "prod"
      [] s = "X"     -> "x"
      [] s = "+Inf"  -> "+inf"
      [] s = "GET"   -> "get"
      [] s = "POST"  -> "post"
      [] s = "Content-Type" -> "content-type"
      [] s = "Authorization" -> "authorization"
      [] s = "API-KEY" -> "api-key"
      [] s = "X-Auth-Token" -> "x-auth-token"
      [] s = "Proxy-Authorization" -> "proxy-authorization"
      [] OTHER       -> s

\* fmt.Sprintf("%v", value): a string prints as itself, +Inf as "+Inf"
Sprintf(v) == IF v = Inf THEN "+Inf" ELSE v

\* p occurs in s, for the (lower-cased) strings of the model
IsSubstr(p, s) == p = s \/ (p = "inf" /\ s = "+inf")

\* regexp.Compile fails on this source
BadPattern == "("

\* regexp.MustCompile("(?i)" + p).MatchString(s): unanchored, case-insensitive
RegexMatch(p, s) ==
    CASE p = ".*"   -> TRUE
      [] p = "^/a$" -> Lower(s) = "/a"
      [] p = "^/b$" -> Lower(s) = "/b"
      [] OTHER      -> IsSubstr(Lower(p), Lower(s))

\* PatternField.Validate: compile every pattern, fail on the first bad one
PatternValidate(p) ==
    IF \E i \in 1..Len(p.Patterns) : p.Patterns[i] = BadPattern
    THEN [err |-> TRUE, p |-> p]
    ELSE [err |-> FALSE, p |-> [p EXCEPT !.Compiled = p.Patterns]]

\* a pattern field as the YAML decoder leaves it, and after Validate
RawPF(ps) == [Patterns |-> ps, Compiled |-> <<>>]
PF(ps)    == [Patterns |-> ps, Compiled |-> ps]

\* PatternField.Matches
Matches(p, input) == \E i \in 1..Len(p.Compiled) : RegexMatch(p.Compiled[i], input)

\* PatternField.Len
PatternLen(p) == Len(p.Patterns)

(***************************************************************************)
(* Predicate engine                                                        *)
(***************************************************************************)
\* A BoolExpr; a *BoolExpr is a sequence of zero (nil) or one node.  OrPresent
\* tells an Or slice that is empty but not nil (YAML "or: []") from a nil one.
Expr(body, q, hdrs, and, or, not) ==
    [Body |-> body, Query |-> q, Headers |-> hdrs, And |-> and, Or |-> or, Not |-> not,
     OrPresent |-> Len(or) > 0]
EmptyExpr     == Expr(EmptyFcn, EmptyFcn, EmptyFcn, <<>>, <<>>, <<>>)
BodyLeaf(k, p)   == Expr((k :> PF(<<p>>)), EmptyFcn, EmptyFcn, <<>>, <<>>, <<>>)
HeaderLeaf(k, p) == Expr(EmptyFcn, EmptyFcn, (k :> PF(<<p>>)), <<>>, <<>>, <<>>)
OrExpr(alts)     == Expr(EmptyFcn, EmptyFcn, EmptyFcn, <<>>, alts, <<>>)
\* leaves as the YAML decoder builds them: patterns not compiled yet
RawBodyLeaf(k, p)   == Expr((k :> RawPF(<<p>>)), EmptyFcn, EmptyFcn, <<>>, <<>>, <<>>)
RawHeaderLeaf(k, p) == Expr(EmptyFcn, EmptyFcn, (k :> RawPF(<<p>>)), <<>>, <<>>, <<>>)

\* toStringMap
toStringMap(body) == [k \in DOMAIN body.m |-> Sprintf(body.m[k])]

\* The maps the loop "normalizedHeaders[strings.ToLower(key)] = value" can
\* build: when two keys differ only in case the iteration order decides.
NormalizedHeaderMaps(h) ==
    LET lks == {Lower(k) : k \in DOMAIN h}
    IN  {n \in [lks -> {h[k] : k \in DOMAIN h}] :
            \A lk \in lks : \E k \in DOMAIN h : Lower(k) = lk /\ n[lk] = h[k]}

\* a matcher on a field that is not there is passed over
evaluateLeafMatchersSkipAbsent(b, bodyStrings, normalizedHeaders, q) ==
    /\ \A k \in DOMAIN b.Body :
          k \in DOMAIN bodyStrings => Matches(b.Body[k], bodyStrings[k])
    /\ \A k \in DOMAIN b.Query :
          k \in DOMAIN q => Matches(b.Query[k], q[k])
    /\ \A k \in DOMAIN b.Headers :
          Lower(k) \in DOMAIN normalizedHeaders
              => Matches(b.Headers[k], normalizedHeaders[Lower(k)])

\* BoolExpr.evaluateLeafMatchers
evaluateLeafMatchers(b, bodyStrings, normalizedHeaders, q) ==
    /\ \A k \in DOMAIN b.Body :
          k \in DOMAIN bodyStrings /\ Matches(b.Body[k], bodyStrings[k])
    /\ \A k \in DOMAIN b.Query :
          k \in DOMAIN q /\ Matches(b.Query[k], q[k])
    /\ \A k \in DOMAIN b.Headers :
          Lower(k) \in DOMAIN normalizedHeaders
          /\ Matches(b.Headers[k], normalizedHeaders[Lower(k)])

\* an or clause that asks for every sub-node
RECURSIVE EvaluateSetOrAll(_, _, _, _)
EvaluateSetOrAll(p, body, h, q) ==
    IF p = <<>> THEN {TRUE}
    ELSE {  /\ \E n \in NormalizedHeaderMaps(h) :
                  evaluateLeafMatchers(p[1], toStringMap(body), n, q)
            /\ \A i \in 1..Len(p[1].And) :
                  TRUE \in EvaluateSetOrAll(<<p[1].And[i]>>, body, h, q)
            /\ \A i \in 1..Len(p[1].Or) :
                  TRUE \in EvaluateSetOrAll(<<p[1].Or[i]>>, body, h, q)
            /\ p[1].Not # <<>> => FALSE \in EvaluateSetOrAll(p[1].Not, body, h, q) }

\* BoolExpr.Evaluate, as the set of results it can return (one result unless
\* the header map holds keys that differ only in case).  p is the pointer.
RECURSIVE EvaluateSet(_, _, _, _)
EvaluateSet(p, body, h, q) ==
    IF p = <<>> THEN {TRUE}
    ELSE
    LET b     == p[1]
        leaf  == {evaluateLeafMatchers(b, toStringMap(body), n, q) :
                     n \in NormalizedHeaderMaps(h)}
        sub(e) == EvaluateSet(<<e>>, body, h, q)
        andS  == {r \in BOOLEAN :
                    IF r THEN \A i \in 1..Len(b.And) : TRUE \in sub(b.And[i])
                         ELSE \E i \in 1..Len(b.And) : FALSE \in sub(b.And[i])}
        orS   == IF Len(b.Or) = 0 THEN {TRUE}
                 ELSE {r \in BOOLEAN :
                         IF r THEN \E i \in 1..Len(b.Or) : TRUE \in sub(b.Or[i])
                              ELSE \A i \in 1..Len(b.Or) : FALSE \in sub(b.Or[i])}
        notS  == IF b.Not = <<>> THEN {TRUE}
                 ELSE {~r : r \in EvaluateSet(b.Not, body, h, q)}
    IN  {r \in BOOLEAN :
            IF r THEN TRUE \in leaf /\ TRUE \in andS /\ TRUE \in orS /\ TRUE \in notS
                 ELSE FALSE \in leaf \/ FALSE \in andS \/ FALSE \in orS \/ FALSE \in notS}

\* Evaluate on a header map without keys that differ only in case
Evaluate(p, body, h, q) == TRUE \in EvaluateSet(p, body, h, q)

(***************************************************************************)
(* Template engine                                                         *)
(***************************************************************************)
NilTmpl == "<nil>"

\* tmpl.Execute(&buf, input) for the templates of the model:
\*   tSet   {"b":"y"}             a constant object
\*   tEcho  {{ toJson . }}        toJson prints "null" when json.Marshal fails
\*   tNull  null
\*   tArr   [1]
\*   tBad   oops                  not JSON
\*   tErr   {{ index }}           fails at execution
Render(tmpl, input) ==
    CASE tmpl = "tSet"  -> [err |-> FALSE, text |-> ObjText(("b" :> "y"))]
      [] tmpl = "tEcho" -> Only({[err |-> FALSE,
                                  text |-> IF j.err THEN NullText ELSE j.text] :
                                 j \in {Marshal(input)}})
      [] tmpl = "tNull" -> [err |-> FALSE, text |-> NullText]
      [] tmpl = "tArr"  -> [err |-> FALSE, text |-> ArrayText]
      [] tmpl = "tBad"  -> [err |-> FALSE, text |-> InvalidText]
      [] OTHER          -> [err |-> TRUE, text |-> EmptyText]

\* the rendered keys are written over the output map, whose other keys stay
templateOutputMerged(r, d) ==
    IF r.err THEN [ok |-> FALSE, data |-> d, panic |-> FALSE]
    ELSE Only({ IF u.err THEN [ok |-> FALSE, data |-> d, panic |-> FALSE]
                ELSE IF d.nil /\ DOMAIN u.data.m # {}
                THEN [ok |-> FALSE, data |-> d, panic |-> TRUE]
                ELSE [ok |-> TRUE, data |-> [nil |-> d.nil, m |-> MapCopy(d.m, u.data.m)],
                      panic |-> FALSE] :
                u \in {Unmarshal(r.text)} })

\* the second half of ExecuteTemplate: parse the rendered text r and replace
\* the contents of the output map d
templateOutput(r, d) ==
    IF r.err THEN [ok |-> FALSE, data |-> d, panic |-> FALSE]
    ELSE Only({ IF u.err THEN [ok |-> FALSE, data |-> d, panic |-> FALSE]
                ELSE IF d.nil /\ DOMAIN u.data.m # {}
                THEN [ok |-> FALSE, data |-> d, panic |-> TRUE]
                ELSE [ok |-> TRUE, data |-> [nil |-> d.nil, m |-> u.data.m],
                      panic |-> FALSE] :
                u \in {Unmarshal(r.text)} })

\* ExecuteTemplate(tmpl, data, data, ...): ok, the map afterwards, and whether
\* the assignment output[k] = v hit a nil map.
ExecuteTemplate(tmpl, d) == Only({templateOutput(r, d) : r \in {Render(tmpl, d)}})

(***************************************************************************)
(* Action pipeline                                                         *)
(***************************************************************************)
\* An ActionExec.  Delete is the set of the listed keys: applyDelete's result
\* does not depend on their order or repetition.
Action(when, tmpl, merge, default, delete, stop) ==
    [When |-> when, Template |-> tmpl, Merge |-> merge, Default |-> default,
     Delete |-> delete, Stop |-> stop]

\* applyMerge(data, mergeValues, appliedValues): a write to a nil map panics
applyMerge(d, mergeValues, changes) ==
    IF d.nil /\ DOMAIN mergeValues # {}
    THEN [data |-> d, changes |-> changes, panic |-> TRUE]
    ELSE [data |-> [d EXCEPT !.m = MapCopy(d.m, mergeValues)],
          changes |-> MapCopy(changes, mergeValues), panic |-> FALSE]

\* every listed key is set, present or not
applyDefaultAlways(d, defaultValues, changes) ==
    IF d.nil /\ DOMAIN defaultValues # {}
    THEN [data |-> d, changes |-> changes, panic |-> TRUE]
    ELSE [data |-> [d EXCEPT !.m = MapCopy(d.m, defaultValues)],
          changes |-> MapCopy(changes, defaultValues), panic |-> FALSE]

\* applyDefault
applyDefault(d, defaultValues, changes) ==
    IF d.nil /\ (DOMAIN defaultValues) \ (DOMAIN d.m) # {}
    THEN [data |-> d, changes |-> changes, panic |-> TRUE]
    ELSE [data |-> [d EXCEPT !.m = MapCopy(defaultValues, d.m)],
          changes |-> MapCopy(changes,
                        [k \in (DOMAIN defaultValues) \ (DOMAIN d.m) |-> defaultValues[k]]),
          panic |-> FALSE]

\* applyDelete
applyDelete(d, deleteKeys, changes) ==
    [data |-> [d EXCEPT !.m = [k \in (DOMAIN d.m) \ deleteKeys |-> d.m[k]]],
     changes |-> MapCopy(changes, [k \in deleteKeys \cap DOMAIN d.m |-> Deleted]),
     panic |-> FALSE]

\* The state processActions carries through its loop; ch is opChanges
PassState(d) ==
    [data |-> d, appliedValues |-> EmptyFcn, anyApplied |-> FALSE, panic |-> FALSE,
     ch |-> EmptyFcn]

\* an action without a predicate is skipped
opSkippedNilWhen(op, d, h, q) == op.When = <<>> \/ ~Evaluate(op.When, d, h, q)

\* the predicate evaluated against the body as received
opSkippedOnReceived(op, d, h, q) == op.When # <<>> /\ ~Evaluate(op.When, received, h, q)

\* "if op.When != nil && !op.When.Evaluate(data, headers, query) { continue }"
opSkipped(op, d, h, q) == op.When # <<>> /\ ~Evaluate(op.When, d, h, q)

\* the stop check left out
opStopsNever(op) == FALSE

\* "if op.Stop { break }", reached only by an action that was not skipped
opStops(op) == op.Stop

\* "if ExecuteTemplate(...) { maps.Copy(appliedValues, data);
\*  maps.Copy(opChanges, data); anyApplied = true }"
afterTemplate(st, e) ==
    IF e.panic THEN [st EXCEPT !.panic = TRUE]
    ELSE IF e.ok
    THEN [st EXCEPT !.data = e.data,
                    !.appliedValues = MapCopy(st.appliedValues, e.data.m),
                    !.ch = MapCopy(st.ch, e.data.m),
                    !.anyApplied = TRUE]
    ELSE st

\* "apply(data, values, opChanges); for k, v := range opChanges
\*  { appliedValues[k] = v }"
afterApply(st, r) ==
    IF r.panic THEN [st EXCEPT !.panic = TRUE]
    ELSE [st EXCEPT !.data = r.data, !.ch = r.changes,
                    !.appliedValues = MapCopy(st.appliedValues, r.changes)]

stepTemplate(op, tmpl, st) ==
    IF op.Template # "" /\ tmpl # NilTmpl
    THEN Only({afterTemplate(st, e) : e \in {ExecuteTemplate(tmpl, st.data)}})
    ELSE st

stepDefault(op, st) ==
    IF DOMAIN op.Default # {} /\ ~st.panic
    THEN Only({afterApply(st, r) : r \in {applyDefault(st.data, op.Default, st.ch)}})
    ELSE st

stepMerge(op, st) ==
    IF DOMAIN op.Merge # {} /\ ~st.panic
    THEN Only({afterApply(st, r) : r \in {applyMerge(st.data, op.Merge, st.ch)}})
    ELSE st

stepDelete(op, st) ==
    IF op.Delete # {} /\ ~st.panic
    THEN Only({afterApply(st, r) : r \in {applyDelete(st.data, op.Delete, st.ch)}})
    ELSE st

\* "if len(opChanges) > 0 { anyApplied = true }"
stepChanged(st) ==
    IF st.panic THEN st
    ELSE [st EXCEPT !.anyApplied = st.anyApplied \/ DOMAIN st.ch # {}]

\* the delete sub-step comes before the merge sub-step
runOpDeleteBeforeMerge(op, tmpl, st) ==
    Only({stepChanged(s4) :
          s4 \in {stepMerge(op, s3) :
          s3 \in {stepDelete(op, s2) :
          s2 \in {stepDefault(op, s1) :
          s1 \in {stepTemplate(op, tmpl, s0) :
          s0 \in {[st EXCEPT !.ch = EmptyFcn]}}}}}})

\* The body of one iteration for an action that is not skipped: a fresh
\* opChanges, then template, default, merge, delete in this order
runOp(op, tmpl, st) ==
    Only({stepChanged(s4) :
          s4 \in {stepDelete(op, s3) :
          s3 \in {stepMerge(op, s2) :
          s2 \in {stepDefault(op, s1) :
          s1 \in {stepTemplate(op, tmpl, s0) :
          s0 \in {[st EXCEPT !.ch = EmptyFcn]}}}}}})

\* processActions from action i on: the loop over operations
RECURSIVE actionsFrom(_, _, _, _, _, _)
actionsFrom(i, operations, tmpls, st, h, q) ==
    IF i > Len(operations) \/ st.panic THEN st
    ELSE IF opSkipped(operations[i], st.data, h, q)
    THEN actionsFrom(i + 1, operations, tmpls, st, h, q)
    ELSE IF opStops(operations[i]) THEN runOp(operations[i], tmpls[i], st)
    ELSE Only({actionsFrom(i + 1, operations, tmpls, n, h, q) :
               n \in {runOp(operations[i], tmpls[i], st)}})

\* processActions(phase, data, headers, query, ..., operations, templates):
\* (anyApplied, appliedValues) and the mutated data
processActions(d, h, q, operations, tmpls) ==
    Only({actionsFrom(1, operations, tmpls, st, h, q) : st \in {PassState(d)}})

(***************************************************************************)
(* One pass of processActions, one loop iteration per step                 *)
(***************************************************************************)
MaxOps == 3

NoWhen == <<>>
When(e) == <<e>>

\* The actions the passes are built from
ActionMenu == {
    Action(When(HeaderLeaf("X-Env", "prod")), "", ("a" :> "y"), EmptyFcn, {}, FALSE),
    Action(When(BodyLeaf("b", ".*")), "", EmptyFcn, EmptyFcn, {"b"}, TRUE),
    Action(NoWhen, "", ("b" :> "x"), EmptyFcn, {}, FALSE),
    Action(When(BodyLeaf("a", "x")), "", EmptyFcn, ("a" :> "x"), {}, TRUE),
    Action(NoWhen, "tBad", ("a" :> "x"), EmptyFcn, {}, FALSE),
    Action(NoWhen, "tSet", EmptyFcn, EmptyFcn, {}, FALSE),
    Action(NoWhen, "tNull", EmptyFcn, EmptyFcn, {}, FALSE),
    Action(NoWhen, "tErr", EmptyFcn, ("b" :> "y"), {"a"}, FALSE),
    Action(NoWhen, "tArr", EmptyFcn, EmptyFcn, {}, TRUE),
    Action(NoWhen, "tSet", ("a" :> "y"), EmptyFcn, {"b"}, FALSE),
    Action(NoWhen, "", ("a" :> "y"), ("b" :> "y"), {"b"}, FALSE),
    Action(NoWhen, "tEcho", EmptyFcn, EmptyFcn, {}, FALSE),
    Action(NoWhen, "tSet", ("a" :> "y") @@ ("b" :> "x"), ("a" :> "x"), {"b"}, FALSE) }

SeqsUpTo(S, n) == UNION {[1..k -> S] : k \in 1..n}

\* compileRouteTemplates: the template slot of an action, nil without a template
compileSlot(op) == IF op.Template # "" THEN op.Template ELSE NilTmpl
compileSlots(operations) == [i \in 1..Len(operations) |-> compileSlot(operations[i])]

PipeBodies == {NilMap} \cup {Obj(m) : m \in MapsOver(Keys, {"x"})}
PipeHeaders == {EmptyFcn, ("X-Env" :> "prod")}
NoQuery == EmptyFcn

\* what the template of an executed action rendered: "none" without a
\* template, "error" when execution failed, else the kind of the text
RenderKind(op, tmpl, d) ==
    IF op.Template = "" \/ tmpl = NilTmpl THEN "none"
    ELSE IF Render(tmpl, d).err THEN "error"
    ELSE Render(tmpl, d).text.kind

PassStateNow ==
    [data |-> data, appliedValues |-> appliedValues, anyApplied |-> anyApplied,
     panic |-> FALSE, ch |-> EmptyFcn]

\* an iteration whose predicate does not match: continue
PipeSkip ==
    /\ ppc = "loop" /\ opIdx <= Len(ops)
    /\ UNCHANGED <<txns, logVars, callVars, loadVars>>
    /\ opSkipped(ops[opIdx], data, headers, query)
    /\ evaluated' = Append(evaluated, opIdx)
    /\ opIdx' = opIdx + 1
    /\ UNCHANGED <<ops, templates, data, headers, query, appliedValues, anyApplied, ppc,
                   executed, received, bodyBefore, lastTmpl>>
    /\ UNCHANGED <<cfgVars, httpVars, streamVars>>

\* an iteration whose predicate matches: the sub-steps, then the stop check
PipeRun ==
    /\ ppc = "loop" /\ opIdx <= Len(ops)
    /\ UNCHANGED <<txns, logVars, callVars, loadVars>>
    /\ ~opSkipped(ops[opIdx], data, headers, query)
    /\ \E n \in {runOp(ops[opIdx], templates[opIdx], PassStateNow)} :
           /\ data' = n.data
           /\ appliedValues' = n.appliedValues
           /\ anyApplied' = n.anyApplied
           /\ ppc' = IF n.panic THEN "panic"
                     ELSE IF opStops(ops[opIdx]) THEN "returned" ELSE "loop"
           /\ opIdx' = IF n.panic \/ opStops(ops[opIdx]) THEN opIdx ELSE opIdx + 1
    /\ evaluated' = Append(evaluated, opIdx)
    /\ executed' = Append(executed, opIdx)
    /\ bodyBefore' = data
    /\ lastTmpl' = RenderKind(ops[opIdx], templates[opIdx], data)
    /\ UNCHANGED <<ops, templates, headers, query, received>>
    /\ UNCHANGED <<cfgVars, httpVars, streamVars>>

\* the range is exhausted: return anyApplied, appliedValues
PipeReturn ==
    /\ ppc = "loop" /\ opIdx > Len(ops)
    /\ UNCHANGED <<txns, logVars, callVars, loadVars>>
    /\ ppc' = "returned"
    /\ UNCHANGED <<ops, templates, data, headers, query, appliedValues, anyApplied, opIdx,
                   evaluated, executed, received, bodyBefore, lastTmpl>>
    /\ UNCHANGED <<cfgVars, httpVars, streamVars>>

PipeNext == PipeSkip \/ PipeRun \/ PipeReturn

\* PipeInit, with the rest of the state idle
InitPipe ==
    /\ ops \in SeqsUpTo(ActionMenu, MaxOps)
    /\ templates = compileSlots(ops)
    /\ data \in PipeBodies
    /\ received = data
    /\ headers \in PipeHeaders
    /\ appliedValues = EmptyFcn /\ anyApplied = FALSE /\ opIdx = 1 /\ ppc = "loop"
    /\ evaluated = <<>> /\ executed = <<>>
    /\ bodyBefore = data /\ lastTmpl = "none" /\ query = EmptyFcn
    /\ cfgRoutes = <<>> /\ cfgState = "off" /\ cfgErr = ""
    /\ routes = <<>> /\ hpc = "off" /\ req = <<>> /\ fwd = <<>> /\ ctxRoutes = <<>>
    /\ resp = <<>> /\ out = <<>> /\ pipelineRuns = 0
    /\ sRoutes = <<>> /\ upstream = <<>> /\ upstreamErr = "none" /\ wpc = "off"
    /\ pending = <<>> /\ readerClosed = FALSE /\ writerClosed = "open"
    /\ bodyClosed = FALSE /\ consumed = <<>> /\ scanned = <<>> /\ emitted = <<>>
    /\ failedAt = <<>> /\ txns = <<>> /\ logHeaders = <<>> /\ logged = <<>>
    /\ evalArgs = <<>> /\ evalResults = <<>>
    /\ files = <<>> /\ loadStack = <<>> /\ watchedFiles = <<>> /\ loadState = "off"

SpecPipe == InitPipe /\ [][PipeNext]_vars

Range(f) == {f[i] : i \in DOMAIN f}

\* the stepwise pass ends in the state processActions computes
PipeAgrees ==
    ppc # "loop" =>
        LET r == processActions(received, headers, NoQuery, ops, templates)
        IN  IF r.panic THEN ppc = "panic"
            ELSE /\ ppc = "returned"
                 /\ data = r.data
                 /\ appliedValues = r.appliedValues
                 /\ anyApplied = r.anyApplied

(***************************************************************************)
(* C1: processActions runs the actions of one phase in declared order;     *)
(* once an action that was not skipped has stop set, no later action of    *)
(* the list is evaluated or applied, whether or not the stopping action    *)
(* changed anything; a stop flag on a skipped action has no effect.        *)
(***************************************************************************)
C1_StopHaltsPhase ==
    \* declared order, nothing evaluated twice, nothing left out in between
    /\ evaluated = [i \in 1..Len(evaluated) |-> i]
    /\ \A i \in 1..Len(executed) : \A j \in 1..Len(executed) :
          i < j => executed[i] < executed[j]
    /\ Range(executed) \subseteq Range(evaluated)
    \* a stop on an action that ran ends the pass there
    /\ \A j \in Range(executed) :
          ops[j].Stop => /\ ppc # "loop"
                         /\ Len(evaluated) = j
                         /\ opIdx = j
    \* nothing else ends it: a pass that returned without such a stop (a stop
    \* on a skipped action included) evaluated every action
    /\ (ppc = "returned" /\ ~\E j \in Range(executed) : ops[j].Stop)
          => Len(evaluated) = Len(ops)
    \* body and applied values get nothing from the actions after the stop:
    \* they are what the list cut after the stopping action produces
    /\ \A j \in Range(executed) :
          (ops[j].Stop /\ ppc = "returned") =>
             LET r == processActions(received, headers, NoQuery,
                                     SubSeq(ops, 1, j), SubSeq(templates, 1, j))
             IN  data = r.data /\ appliedValues = r.appliedValues

\* a stopping action that changed nothing ended the pass before a later
\* action, after an earlier action with a stop flag was skipped
C1_Witness ==
    /\ ppc = "returned" /\ Len(ops) = 3 /\ evaluated = <<1, 2>> /\ executed = <<2>>
    /\ ops[1].Stop /\ ops[2].Stop
    /\ data = bodyBefore /\ appliedValues = EmptyFcn

\* the template of the last executed action failed to render or rendered
\* something that is not a JSON object
TemplateFailed == lastTmpl \in {"error", "null", "array", "scalar", "invalid"}

(***************************************************************************)
(* C3: if an action's template fails (render error, or output that is not  *)
(* a JSON object), the body after that action is exactly the body before   *)
(* it, even when the action also declares merge, default or delete; the    *)
(* pass goes on and the transaction is not aborted.                        *)
(***************************************************************************)
C3_FailedTemplateKeepsBody ==
    (executed # <<>> /\ TemplateFailed) =>
        /\ data = bodyBefore
        /\ ppc # "panic"
        /\ (ppc = "returned" /\ ~ops[executed[Len(executed)]].Stop)
              => Len(evaluated) = Len(ops)

(***************************************************************************)
(* Configuration: Validate and CompileTemplates                            *)
(***************************************************************************)
\* An Action as decoded from YAML
CfgAction(when, whenAny, tmpl, merge, default, delete, stop) ==
    [When |-> when, WhenAny |-> whenAny, Template |-> tmpl, Merge |-> merge,
     Default |-> default, Delete |-> delete, Stop |-> stop]

\* A Route as decoded from YAML: Compiled is nil
Route(methods, paths, target, onRequest, onResponse) ==
    [Methods |-> methods, Paths |-> paths, TargetPath |-> target,
     OnRequest |-> onRequest, OnResponse |-> onResponse, Compiled |-> <<>>]

\* strings.HasPrefix(s, "/") on the paths of the model
HasSlashPrefix(s) == s \in {"/a", "/b", "/c"}

mapHasBad(m) == \E k \in DOMAIN m : PatternValidate(m[k]).err
mapCompile(m) == [k \in DOMAIN m |-> PatternValidate(m[k]).p]

\* BoolExpr.Validate: whether it returns an error
RECURSIVE exprHasBad(_)
exprHasBad(b) ==
    \/ mapHasBad(b.Body) \/ mapHasBad(b.Query) \/ mapHasBad(b.Headers)
    \/ \E i \in 1..Len(b.And) : exprHasBad(b.And[i])
    \/ \E i \in 1..Len(b.Or) : exprHasBad(b.Or[i])
    \/ (b.Not # <<>> /\ exprHasBad(b.Not[1]))

\* BoolExpr.Validate: the tree with every pattern compiled.  The maps, the
\* And/Or arrays and the Not node are updated in place.
RECURSIVE exprCompile(_)
exprCompile(b) ==
    [Body |-> mapCompile(b.Body), Query |-> mapCompile(b.Query),
     Headers |-> mapCompile(b.Headers),
     And |-> [i \in 1..Len(b.And) |-> exprCompile(b.And[i])],
     Or  |-> [i \in 1..Len(b.Or) |-> exprCompile(b.Or[i])],
     OrPresent |-> b.OrPresent,
     Not |-> IF b.Not = <<>> THEN <<>> ELSE <<exprCompile(b.Not[1])>>]

\* "if len(op.WhenAny) > 0 { op.When = &BoolExpr{Or: op.WhenAny} }"
whenAnySugar(op) ==
    IF Len(op.WhenAny) > 0 THEN [op EXCEPT !.When = <<OrExpr(op.WhenAny)>>] ELSE op

\* validateAction without the check for when together with when_any
validateActionBothAllowed(op) ==
    Only({
        IF o.When # <<>> /\ exprHasBad(o.When[1])
        THEN [err |-> "invalid when", op |-> o]
        ELSE IF o.Template = "" /\ DOMAIN o.Merge = {} /\ DOMAIN o.Default = {}
                /\ o.Delete = {}
        THEN [err |-> "must have at least one action",
              op |-> [o EXCEPT !.When = IF o.When = <<>> THEN <<>>
                                        ELSE <<exprCompile(o.When[1])>>]]
        ELSE [err |-> "",
              op |-> [o EXCEPT !.When = IF o.When = <<>> THEN <<>>
                                        ELSE <<exprCompile(o.When[1])>>]] :
        o \in {whenAnySugar(op)} })

\* validateAction(op *Action, ...): the error ("" for nil) and *op afterwards
validateAction(op) ==
    IF op.When # <<>> /\ Len(op.WhenAny) > 0
    THEN [err |-> "cannot specify both when and when_any", op |-> op]
    ELSE Only({
        IF o.When # <<>> /\ exprHasBad(o.When[1])
        THEN [err |-> "invalid when", op |-> o]
        ELSE IF o.Template = "" /\ DOMAIN o.Merge = {} /\ DOMAIN o.Default = {}
                /\ o.Delete = {}
        THEN [err |-> "must have at least one action",
              op |-> [o EXCEPT !.When = IF o.When = <<>> THEN <<>>
                                        ELSE <<exprCompile(o.When[1])>>]]
        ELSE [err |-> "",
              op |-> [o EXCEPT !.When = IF o.When = <<>> THEN <<>>
                                        ELSE <<exprCompile(o.When[1])>>]] :
        o \in {whenAnySugar(op)} })

\* What "for opIdx, op := range route.OnRequest { validateAction(&op, ...) }"
\* leaves in the route's own action: op is a copy of the element, so the
\* assignment to op.When is lost; the predicate tree the element already
\* pointed to and the when_any array it shares with the copy are compiled.
actionAfterValidate(orig, copy) ==
    [orig EXCEPT !.When = IF orig.When # <<>> THEN copy.When ELSE <<>>,
                 !.WhenAny = IF Len(orig.WhenAny) > 0 /\ copy.When # <<>>
                             THEN copy.When[1].Or ELSE orig.WhenAny]

actionsError(acts) ==
    IF \E i \in 1..Len(acts) : validateAction(acts[i]).err # ""
    THEN validateAction(acts[CHOOSE i \in 1..Len(acts) :
                               /\ validateAction(acts[i]).err # ""
                               /\ \A j \in 1..(i - 1) : validateAction(acts[j]).err = ""]).err
    ELSE ""

actionsAfterValidate(acts) ==
    [i \in 1..Len(acts) |-> actionAfterValidate(acts[i], validateAction(acts[i]).op)]

\* validateRoute(route *Route, index): the error and *route afterwards
validateRoute(route) ==
    IF PatternLen(route.Methods) = 0 THEN [err |-> "methods required", route |-> route]
    ELSE IF PatternLen(route.Paths) = 0 THEN [err |-> "paths required", route |-> route]
    ELSE IF Len(route.OnRequest) = 0 /\ Len(route.OnResponse) = 0
    THEN [err |-> "at least one action required", route |-> route]
    ELSE IF route.TargetPath # "" /\ ~HasSlashPrefix(route.TargetPath)
    THEN [err |-> "target_path must be absolute", route |-> route]
    ELSE IF PatternValidate(route.Methods).err
    THEN [err |-> "methods", route |-> route]
    ELSE IF PatternValidate(route.Paths).err
    THEN [err |-> "paths", route |-> route]
    ELSE IF actionsError(route.OnRequest) # ""
    THEN [err |-> actionsError(route.OnRequest), route |-> route]
    ELSE IF actionsError(route.OnResponse) # ""
    THEN [err |-> actionsError(route.OnResponse), route |-> route]
    ELSE [err |-> "",
          route |-> [route EXCEPT !.Methods = PatternValidate(route.Methods).p,
                                  !.Paths = PatternValidate(route.Paths).p,
                                  !.OnRequest = actionsAfterValidate(route.OnRequest),
                                  !.OnResponse = actionsAfterValidate(route.OnResponse)]]

\* Validate(config) for one proxy with listen and target set: the first
\* error of its routes
Validate(rs) ==
    IF Len(rs) = 0 THEN [err |-> "routes is required", routes |-> rs]
    ELSE IF \E i \in 1..Len(rs) : validateRoute(rs[i]).err # ""
    THEN [err |-> validateRoute(rs[CHOOSE i \in 1..Len(rs) :
                                    /\ validateRoute(rs[i]).err # ""
                                    /\ \A j \in 1..(i - 1) : validateRoute(rs[j]).err = ""]).err,
          routes |-> rs]
    ELSE [err |-> "", routes |-> [i \in 1..Len(rs) |-> validateRoute(rs[i]).route]]

\* template.New(...).Parse fails on this source
BadTemplate == "tSyntax"

\* the ActionExec compileRouteTemplates makes of an Action
toActionExec(op) ==
    Action(op.When, op.Template, op.Merge, op.Default, op.Delete, op.Stop)

\* compileRouteTemplates for one route: route.Compiled
compileRoute(route) ==
    [route EXCEPT !.Compiled = <<[
        OnRequest  |-> [j \in 1..Len(route.OnRequest) |-> toActionExec(route.OnRequest[j])],
        OnResponse |-> [j \in 1..Len(route.OnResponse) |-> toActionExec(route.OnResponse[j])],
        OnRequestTemplates  |-> compileSlots(route.OnRequest),
        OnResponseTemplates |-> compileSlots(route.OnResponse)]>>]

routeTemplateBad(route) ==
    \/ \E j \in 1..Len(route.OnRequest) : route.OnRequest[j].Template = BadTemplate
    \/ \E j \in 1..Len(route.OnResponse) : route.OnResponse[j].Template = BadTemplate

\* CompileTemplates(cfg)
CompileTemplates(rs) ==
    IF \E i \in 1..Len(rs) : routeTemplateBad(rs[i])
    THEN [err |-> "template compilation failed", routes |-> rs]
    ELSE [err |-> "", routes |-> [i \in 1..Len(rs) |-> compileRoute(rs[i])]]

(***************************************************************************)
(* Loading a configuration, then running the request pipeline of its route *)
(***************************************************************************)
MaxCfgOps == 2

CfgActionMenu == {
    CfgAction(NoWhen, <<RawBodyLeaf("a", "x"), RawBodyLeaf("b", "x")>>,
              "", ("b" :> "y"), EmptyFcn, {}, FALSE),
    CfgAction(NoWhen, <<RawHeaderLeaf("X-Env", "prod")>>, "tSet", EmptyFcn, EmptyFcn, {}, TRUE),
    CfgAction(When(RawBodyLeaf("a", "x")), <<>>, "", EmptyFcn, EmptyFcn, {"a"}, FALSE),
    CfgAction(NoWhen, <<>>, "", EmptyFcn, ("a" :> "x"), {}, FALSE),
    CfgAction(When(RawBodyLeaf("a", "x")), <<RawBodyLeaf("b", "x")>>,
              "", ("b" :> "y"), EmptyFcn, {}, FALSE),
    CfgAction(When(RawBodyLeaf("a", BadPattern)), <<>>, "", ("b" :> "y"), EmptyFcn, {}, FALSE),
    CfgAction(NoWhen, <<>>, "", EmptyFcn, EmptyFcn, {}, FALSE),
    CfgAction(NoWhen, <<>>, BadTemplate, EmptyFcn, EmptyFcn, {}, FALSE) }

CfgRouteSet ==
    {Route(RawPF(<<"POST">>), RawPF(<<"^/a$">>), t, rq, rs) :
        t \in {"", "/b", "rel"},
        rq \in SeqsUpTo(CfgActionMenu, MaxCfgOps),
        rs \in {<<>>, <<CfgAction(NoWhen, <<>>, "", EmptyFcn, ("a" :> "x"), {}, FALSE)>>}}
    \cup {Route(RawPF(<<>>), RawPF(<<"^/a$">>), "", <<>>, <<>>),
          Route(RawPF(<<"POST">>), RawPF(<<BadPattern>>), "", <<>>,
                <<CfgAction(NoWhen, <<>>, "", EmptyFcn, ("a" :> "x"), {}, FALSE)>>)}

CfgBodies == {Obj(m) : m \in MapsOver(Keys, Vals)}

InitCfg ==
    /\ cfgRoutes \in {<<r>> : r \in CfgRouteSet}
    /\ cfgState = "parsed" /\ cfgErr = ""
    /\ ops = <<>> /\ templates = <<>> /\ data = EmptyMap /\ headers = EmptyFcn
    /\ appliedValues = EmptyFcn /\ anyApplied = FALSE /\ opIdx = 1 /\ ppc = "returned"
    /\ evaluated = <<>> /\ executed = <<>> /\ received = EmptyMap
    /\ bodyBefore = EmptyMap /\ lastTmpl = "none" /\ query = EmptyFcn
    /\ routes = <<>> /\ hpc = "off" /\ req = <<>> /\ fwd = <<>> /\ ctxRoutes = <<>>
    /\ resp = <<>> /\ out = <<>> /\ pipelineRuns = 0
    /\ sRoutes = <<>> /\ upstream = <<>> /\ upstreamErr = "none" /\ wpc = "off"
    /\ pending = <<>> /\ readerClosed = FALSE /\ writerClosed = "open"
    /\ bodyClosed = FALSE /\ consumed = <<>> /\ scanned = <<>> /\ emitted = <<>>
    /\ failedAt = <<>> /\ txns = <<>> /\ logHeaders = <<>> /\ logged = <<>>
    /\ evalArgs = <<>> /\ evalResults = <<>>
    /\ files = <<>> /\ loadStack = <<>> /\ watchedFiles = <<>> /\ loadState = "off"

\* Load, from Validate on: Validate, then CompileTemplates
loadResult(rs) ==
    Only({ IF v.err # "" THEN [err |-> v.err, routes |-> rs]
           ELSE CompileTemplates(v.routes) :
           v \in {Validate(rs)} })

LoadConfig ==
    /\ cfgState = "parsed"
    /\ UNCHANGED <<txns, logVars, callVars, loadVars>>
    /\ \E r \in {loadResult(cfgRoutes)} :
          /\ cfgErr' = r.err
          /\ cfgState' = IF r.err = "" THEN "loaded" ELSE "invalid"
          /\ cfgRoutes' = IF r.err = "" THEN r.routes ELSE cfgRoutes
    /\ UNCHANGED <<pipeVars, httpVars, streamVars>>

\* ProcessRequest(data, headers, query, route.Compiled, ...) on the loaded route
CfgRequest ==
    /\ cfgState = "loaded"
    /\ UNCHANGED <<txns, logVars, callVars, loadVars>>
    /\ Len(cfgRoutes[1].OnRequest) > 0
    /\ cfgState' = "running"
    /\ ops' = cfgRoutes[1].Compiled[1].OnRequest
    /\ templates' = cfgRoutes[1].Compiled[1].OnRequestTemplates
    /\ data' \in CfgBodies
    /\ received' = data'
    /\ bodyBefore' = data'
    /\ headers' \in PipeHeaders
    /\ appliedValues' = EmptyFcn /\ anyApplied' = FALSE /\ opIdx' = 1 /\ ppc' = "loop"
    /\ evaluated' = <<>> /\ executed' = <<>> /\ lastTmpl' = "none"
    /\ UNCHANGED <<query, cfgRoutes, cfgErr, httpVars, streamVars>>

NextCfg == LoadConfig \/ CfgRequest \/ PipeSkip \/ PipeRun \/ PipeReturn

SpecCfg == InitCfg /\ [][NextCfg]_vars

\* one of the alternatives of a when_any list matches
anyAlternativeMatches(alts, d, h, q) ==
    \E i \in 1..Len(alts) : Evaluate(<<alts[i]>>, d, h, q)

(***************************************************************************)
(* C2: an action declared with when_any is, after Validate and             *)
(* CompileTemplates, applied by the pipeline if and only if at least one   *)
(* of its alternatives matches the current body, headers and query.        *)
(***************************************************************************)
C2_WhenAnyIsOr ==
    [][ ( /\ cfgState = "running" /\ ppc = "loop" /\ opIdx <= Len(ops)
          /\ Len(cfgRoutes[1].OnRequest[opIdx].WhenAny) > 0 )
        => ( (executed' # executed)
               <=> anyAlternativeMatches(cfgRoutes[1].OnRequest[opIdx].WhenAny,
                                         data, headers, NoQuery) ) ]_vars

(***************************************************************************)
(* Streaming processor                                                     *)
(***************************************************************************)
\* Bytes are sequences of texts; these are the fixed ones
PfxAtom  == [kind |-> "data: ", obj |-> EmptyFcn, canon |-> TRUE, len |-> 6]
LfAtom   == [kind |-> "\\n", obj |-> EmptyFcn, canon |-> TRUE, len |-> 1]
CrAtom   == [kind |-> "\\r", obj |-> EmptyFcn, canon |-> TRUE, len |-> 1]
DoneText == [kind |-> "[DONE]", obj |-> EmptyFcn, canon |-> TRUE, len |-> 6]

\* An upstream line: whether it starts with "data: ", the rest of it, and how
\* it ends: "lf", "crlf", or "eof" (the last line, without a newline)
Line(pfx, payload, term) == [pfx |-> pfx, payload |-> payload, term |-> term]

\* scanner.Text(): bufio.ScanLines drops the newline and a trailing \r
lineText(l) ==
    (IF l.pfx THEN <<PfxAtom>> ELSE <<>>)
        \o (IF l.payload.kind = "empty" THEN <<>> ELSE <<l.payload>>)

\* the bytes of the line as the upstream sent them
lineBytes(l) ==
    lineText(l) \o (CASE l.term = "lf" -> <<LfAtom>>
                      [] l.term = "crlf" -> <<CrAtom, LfAtom>>
                      [] OTHER -> <<>>)

\* a route that is validated and compiled
MkRoute(methods, paths, target, onRequest, onResponse) ==
    compileRoute(validateRoute(Route(RawPF(methods), RawPF(paths), target,
                                     onRequest, onResponse)).route)

\* only the first route with response actions is applied
responseFirstRouteOnly(i, rs, st, h, q, keepAlways) ==
    IF \A k \in 1..Len(rs) : Len(rs[k].OnResponse) = 0 THEN st
    ELSE Only({processActions(st.data, h, q, rs[k].Compiled[1].OnResponse,
                              rs[k].Compiled[1].OnResponseTemplates) :
               k \in {CHOOSE k \in 1..Len(rs) :
                         /\ Len(rs[k].OnResponse) > 0
                         /\ \A j \in 1..(k - 1) : Len(rs[j].OnResponse) = 0}})

\* a stop flag in a route ends the loop over the routes as well
RECURSIVE responseRoutesStopEndsAll(_, _, _, _, _, _)
responseRoutesStopEndsAll(i, rs, st, h, q, keepAlways) ==
    IF i > Len(rs) \/ st.panic THEN st
    ELSE IF Len(rs[i].OnResponse) = 0 \/ rs[i].Compiled = <<>>
    THEN responseRoutesStopEndsAll(i + 1, rs, st, h, q, keepAlways)
    ELSE Only({ IF \E j \in 1..Len(rs[i].OnResponse) : rs[i].OnResponse[j].Stop THEN n
                ELSE responseRoutesStopEndsAll(i + 1, rs, n, h, q, keepAlways) :
                n \in {processActions(st.data, h, q, rs[i].Compiled[1].OnResponse,
                                      rs[i].Compiled[1].OnResponseTemplates)} })

\* the loop over the matched routes that ModifyResponse and the streaming
\* worker run on a parsed body: ProcessResponse for every route with
\* response actions, each on the body the earlier ones left
\* (the worker keeps a route's applied values only if the route changed
\* something, ModifyResponse keeps them always)
RECURSIVE responseRoutesFrom(_, _, _, _, _, _)
responseRoutesFrom(i, rs, st, h, q, keepAlways) ==
    IF i > Len(rs) \/ st.panic THEN st
    ELSE IF Len(rs[i].OnResponse) = 0 \/ rs[i].Compiled = <<>>
    THEN responseRoutesFrom(i + 1, rs, st, h, q, keepAlways)
    ELSE Only({responseRoutesFrom(i + 1, rs,
                   [n EXCEPT !.appliedValues =
                                IF keepAlways \/ n.anyApplied
                                THEN MapCopy(st.appliedValues, n.appliedValues)
                                ELSE st.appliedValues,
                             !.anyApplied = st.anyApplied \/ n.anyApplied],
                   h, q, keepAlways) :
               n \in {processActions(st.data, h, q, rs[i].Compiled[1].OnResponse,
                                     rs[i].Compiled[1].OnResponseTemplates)}})

lineWithoutNewline(l) == lineText(l)

\* pipeWriter.Write([]byte(line + "\n"))
lineWithNewline(l) == lineText(l) \o <<LfAtom>>

\* the prefix is written whether or not the line had it
transformedWritesPrefixed(l, text) ==
    <<[bytes |-> <<PfxAtom>>, onFail |-> "return"],
      [bytes |-> <<text>>, onFail |-> "return"],
      [bytes |-> <<LfAtom>>, onFail |-> "return"]>>

\* the three writes of a transformed line: "data: " if the line had the
\* prefix, the marshalled object, "\n"; each returns on failure
transformedWrites(l, text) ==
    (IF l.pfx THEN <<[bytes |-> <<PfxAtom>>, onFail |-> "return"]>> ELSE <<>>)
        \o <<[bytes |-> <<text>>, onFail |-> "return"],
             [bytes |-> <<LfAtom>>, onFail |-> "return"]>>

\* the writes after the routes ran on the parsed payload
writesAfterRoutes(l, st) ==
    IF st.panic THEN [panic |-> TRUE, writes |-> <<>>]
    ELSE Only({ IF j.err
                THEN [panic |-> FALSE,
                      writes |-> <<[bytes |-> lineWithNewline(l), onFail |-> "return"]>>]
                ELSE [panic |-> FALSE, writes |-> transformedWrites(l, j.text)] :
                j \in {Marshal(st.data)} })

\* One iteration of "for scanner.Scan()": the writes the worker makes for a
\* line, each with what a failure of it does, or a panic
lineWrites(l, rs, h, q) ==
    IF lineText(l) = <<>>
    THEN [panic |-> FALSE, writes |-> <<[bytes |-> <<LfAtom>>, onFail |-> "return"]>>]
    ELSE IF l.pfx /\ l.payload = DoneText
    THEN [panic |-> FALSE,
          writes |-> <<[bytes |-> lineWithNewline(l), onFail |-> "continue"]>>]
    ELSE Only({ IF u.err
                THEN [panic |-> FALSE,
                      writes |-> <<[bytes |-> lineWithNewline(l), onFail |-> "continue"]>>]
                ELSE Only({writesAfterRoutes(l, st) :
                           st \in {responseRoutesFrom(1, rs, PassState(u.data), h, q, FALSE)}}) :
                u \in {Unmarshal(l.payload)} })

(***************************************************************************)
(* The streaming worker and the consumer of the conduit                    *)
(***************************************************************************)
MaxLines == 2

StreamHeaders == ("Content-Type" :> "text/event-stream")

LineMenu == {
    Line(FALSE, EmptyText, "lf"),
    Line(FALSE, EmptyText, "crlf"),
    Line(TRUE, DoneText, "lf"),
    Line(TRUE, InvalidText, "lf"),
    Line(FALSE, InvalidText, "eof"),
    Line(FALSE, ArrayText, "lf"),
    Line(TRUE, ScalarText, "lf"),
    Line(TRUE, NullText, "lf"),
    Line(TRUE, ObjText(("a" :> "x")), "lf"),
    Line(FALSE, LooseObjText(("a" :> "x")), "lf") }

\* a line without a newline can only be the last one
StreamInputs ==
    {ls \in SeqsUpTo(LineMenu, MaxLines) :
        \A i \in 1..(Len(ls) - 1) : ls[i].term # "eof"}

RequestOnlyRoute ==
    MkRoute(<<"POST">>, <<"^/a$">>, "",
            <<CfgAction(NoWhen, <<>>, "", ("b" :> "y"), EmptyFcn, {}, FALSE)>>, <<>>)
MergeResponseRoute ==
    MkRoute(<<"POST">>, <<"^/a$">>, "", <<>>,
            <<CfgAction(NoWhen, <<>>, "", ("b" :> "y"), EmptyFcn, {}, FALSE)>>)
InfResponseRoute ==
    MkRoute(<<"POST">>, <<"^/a$">>, "", <<>>,
            <<CfgAction(When(RawBodyLeaf("a", "x")), <<>>, "", ("b" :> Inf), EmptyFcn, {}, FALSE)>>)

DeleteResponseRoute ==
    MkRoute(<<"POST">>, <<"^/a$">>, "", <<>>,
            <<CfgAction(NoWhen, <<>>, "", EmptyFcn, EmptyFcn, {"b"}, FALSE)>>)

StreamRouteMenu ==
    {<<>>, <<RequestOnlyRoute>>, <<MergeResponseRoute>>,
     <<RequestOnlyRoute, InfResponseRoute>>,
     <<MergeResponseRoute, DeleteResponseRoute>>,
     <<DeleteResponseRoute, MergeResponseRoute>>}

\* ModifyStreamingResponse: make the pipe, start the worker, hand the read
\* end to the consumer
StartStreaming ==
    /\ wpc = "off"
    /\ UNCHANGED <<txns, logVars, callVars, loadVars>>
    /\ wpc' = "scan"
    /\ UNCHANGED <<sRoutes, upstream, upstreamErr, pending, readerClosed, writerClosed,
                   bodyClosed, consumed, scanned, emitted, failedAt>>
    /\ UNCHANGED <<pipeVars, cfgVars, httpVars>>

\* the worker scans on while writes of the line before wait for the consumer
WorkerScanAhead ==
    /\ wpc \in {"scan", "write"} /\ upstream # <<>>
    /\ UNCHANGED <<txns, logVars, callVars, loadVars>>
    /\ scanned' = Append(scanned, Head(upstream))
    /\ upstream' = Tail(upstream)
    /\ emitted' = Append(emitted, <<>>)
    /\ \E w \in {lineWrites(Head(upstream), sRoutes, StreamHeaders, NoQuery)} :
          /\ wpc' = IF w.panic THEN "panic" ELSE "write"
          /\ pending' = pending \o w.writes
    /\ UNCHANGED <<sRoutes, upstreamErr, readerClosed, writerClosed, bodyClosed,
                   consumed, failedAt>>
    /\ UNCHANGED <<pipeVars, cfgVars, httpVars>>

\* the scanner loses a line: with two lines left it returns the second
WorkerScanSkipsLine ==
    /\ wpc = "scan" /\ upstream # <<>>
    /\ UNCHANGED <<txns, logVars, callVars, loadVars>>
    /\ \E l \in {IF Len(upstream) > 1 THEN upstream[2] ELSE upstream[1]} :
          /\ scanned' = Append(scanned, l)
          /\ \E w \in {lineWrites(l, sRoutes, StreamHeaders, NoQuery)} :
                /\ wpc' = IF w.panic THEN "panic" ELSE "write"
                /\ pending' = w.writes
    /\ upstream' = IF Len(upstream) > 1 THEN Tail(Tail(upstream)) ELSE <<>>
    /\ emitted' = Append(emitted, <<>>)
    /\ UNCHANGED <<sRoutes, upstreamErr, readerClosed, writerClosed, bodyClosed,
                   consumed, failedAt>>
    /\ UNCHANGED <<pipeVars, cfgVars, httpVars>>

\* scanner.Scan() returns a line; the worker works out what to write for it
WorkerScan ==
    /\ wpc = "scan" /\ upstream # <<>>
    /\ UNCHANGED <<txns, logVars, callVars, loadVars>>
    /\ scanned' = Append(scanned, Head(upstream))
    /\ upstream' = Tail(upstream)
    /\ emitted' = Append(emitted, <<>>)
    /\ \E w \in {lineWrites(Head(upstream), sRoutes, StreamHeaders, NoQuery)} :
          /\ wpc' = IF w.panic THEN "panic" ELSE "write"
          /\ pending' = w.writes
    /\ UNCHANGED <<sRoutes, upstreamErr, readerClosed, writerClosed, bodyClosed,
                   consumed, failedAt>>
    /\ UNCHANGED <<pipeVars, cfgVars, httpVars>>

\* pipeWriter.Write meets a Read of the consumer: the bytes are handed over
WorkerWrite ==
    /\ wpc = "write" /\ ~readerClosed
    /\ UNCHANGED <<txns, logVars, callVars, loadVars>>
    /\ consumed' = consumed \o Head(pending).bytes
    /\ emitted' = [emitted EXCEPT ![Len(emitted)] = @ \o Head(pending).bytes]
    /\ pending' = Tail(pending)
    /\ wpc' = IF Tail(pending) = <<>> THEN "scan" ELSE "write"
    /\ UNCHANGED <<sRoutes, upstream, upstreamErr, readerClosed, writerClosed,
                   bodyClosed, scanned, failedAt>>
    /\ UNCHANGED <<pipeVars, cfgVars, httpVars>>

\* a refused write ends the worker without the deferred closes
WorkerWriteFailsLeavesOpen ==
    /\ wpc = "write" /\ readerClosed
    /\ UNCHANGED <<txns, logVars, callVars, loadVars>>
    /\ failedAt' = Append(failedAt, Len(scanned))
    /\ pending' = <<>>
    /\ wpc' = IF Head(pending).onFail = "return" THEN "done" ELSE "scan"
    /\ UNCHANGED <<bodyClosed, writerClosed>>
    /\ UNCHANGED <<sRoutes, upstream, upstreamErr, readerClosed, consumed, scanned, emitted>>
    /\ UNCHANGED <<pipeVars, cfgVars, httpVars>>

\* pipeWriter.Write after the consumer closed the read end: io.ErrClosedPipe.
\* "return" runs the deferred originalBody.Close() and pipeWriter.Close();
\* "continue" goes back to scanner.Scan()
WorkerWriteFails ==
    /\ wpc = "write" /\ readerClosed
    /\ UNCHANGED <<txns, logVars, callVars, loadVars>>
    /\ failedAt' = Append(failedAt, Len(scanned))
    /\ pending' = <<>>
    /\ IF Head(pending).onFail = "return"
       THEN /\ wpc' = "done" /\ bodyClosed' = TRUE
            /\ writerClosed' = IF writerClosed = "open" THEN "eof" ELSE writerClosed
       ELSE /\ wpc' = "scan" /\ UNCHANGED <<bodyClosed, writerClosed>>
    /\ UNCHANGED <<sRoutes, upstream, upstreamErr, readerClosed, consumed, scanned, emitted>>
    /\ UNCHANGED <<pipeVars, cfgVars, httpVars>>

\* the scanner's error is dropped and the pipe is closed as at the end of input
WorkerEndClean ==
    /\ wpc = "scan" /\ upstream = <<>>
    /\ UNCHANGED <<txns, logVars, callVars, loadVars>>
    /\ wpc' = "done" /\ bodyClosed' = TRUE
    /\ writerClosed' = "eof"
    /\ UNCHANGED <<sRoutes, upstream, upstreamErr, pending, readerClosed, consumed,
                   scanned, emitted, failedAt>>
    /\ UNCHANGED <<pipeVars, cfgVars, httpVars>>

\* scanner.Scan() returns false: CloseWithError on a scanner error, then the
\* deferred closes
WorkerEnd ==
    /\ wpc = "scan" /\ upstream = <<>>
    /\ UNCHANGED <<txns, logVars, callVars, loadVars>>
    /\ wpc' = "done" /\ bodyClosed' = TRUE
    /\ writerClosed' = IF upstreamErr # "none" THEN "error" ELSE "eof"
    /\ UNCHANGED <<sRoutes, upstream, upstreamErr, pending, readerClosed, consumed,
                   scanned, emitted, failedAt>>
    /\ UNCHANGED <<pipeVars, cfgVars, httpVars>>

\* the consumer closes resp.Body (the client went away)
ConsumerClose ==
    /\ wpc # "off" /\ ~readerClosed
    /\ UNCHANGED <<txns, logVars, callVars, loadVars>>
    /\ readerClosed' = TRUE
    /\ UNCHANGED <<sRoutes, upstream, upstreamErr, wpc, pending, writerClosed,
                   bodyClosed, consumed, scanned, emitted, failedAt>>
    /\ UNCHANGED <<pipeVars, cfgVars, httpVars>>

NextStream ==
    StartStreaming \/ WorkerScan \/ WorkerWrite \/ WorkerWriteFails \/ WorkerEnd
        \/ ConsumerClose

InitStream ==
    /\ sRoutes \in StreamRouteMenu
    /\ upstream \in StreamInputs
    /\ upstreamErr \in {"none", "io", "toolong"}
    /\ upstreamErr = "toolong" => \A i \in 1..Len(upstream) : upstream[i].term # "eof"
    /\ wpc = "off" /\ pending = <<>> /\ readerClosed = FALSE /\ writerClosed = "open"
    /\ bodyClosed = FALSE /\ consumed = <<>> /\ scanned = <<>> /\ emitted = <<>>
    /\ failedAt = <<>> /\ txns = <<>> /\ logHeaders = <<>> /\ logged = <<>>
    /\ evalArgs = <<>> /\ evalResults = <<>>
    /\ files = <<>> /\ loadStack = <<>> /\ watchedFiles = <<>> /\ loadState = "off"
    /\ ops = <<>> /\ templates = <<>> /\ data = EmptyMap /\ headers = EmptyFcn
    /\ appliedValues = EmptyFcn /\ anyApplied = FALSE /\ opIdx = 1 /\ ppc = "returned"
    /\ evaluated = <<>> /\ executed = <<>> /\ received = EmptyMap
    /\ bodyBefore = EmptyMap /\ lastTmpl = "none" /\ query = EmptyFcn
    /\ cfgRoutes = <<>> /\ cfgState = "off" /\ cfgErr = ""
    /\ routes = <<>> /\ hpc = "off" /\ req = <<>> /\ fwd = <<>> /\ ctxRoutes = <<>>
    /\ resp = <<>> /\ out = <<>> /\ pipelineRuns = 0

SpecStream == InitStream /\ [][NextStream]_vars

\* the worker goroutine: once started it runs whenever it can take a step; a
\* write needs a Read of the consumer or a closed read end
WorkerStep == StartStreaming \/ WorkerScan \/ WorkerWrite \/ WorkerWriteFails \/ WorkerEnd

\* the same, with a worker that is scheduled and a consumer whose Read is
\* there for every write as long as the read end is open
SpecStreamLive == InitStream /\ [][NextStream]_vars /\ WF_vars(WorkerStep)

\* the worker is through with line i of the lines it scanned, with no write
\* of it refused
lineWritten(i) ==
    /\ i \in 1..Len(scanned)
    /\ i < Len(scanned) \/ wpc \in {"scan", "done"}
    /\ i \notin Range(failedAt)

\* the bytes of a sequence of lines
RECURSIVE streamBytes(_)
streamBytes(ls) == IF ls = <<>> THEN <<>> ELSE lineBytes(Head(ls)) \o streamBytes(Tail(ls))

(***************************************************************************)
(* C4: once the consumer has closed the conduit, the first write the       *)
(* worker attempts fails, and after it the worker scans no further line,   *)
(* attempts no further write, and ends with the upstream body closed,      *)
(* whatever kind of line the failed write was for.                         *)
(***************************************************************************)
C4_FailedWriteEndsWorker ==
    failedAt # <<>> =>
        /\ Len(failedAt) = 1
        /\ Len(scanned) = failedAt[1]
        /\ wpc # "write"
        /\ wpc = "done" => bodyClosed

\* payload that is valid JSON but not an object
nonObjectJSON(l) == l.payload.kind \in {"null", "array", "scalar"}

(***************************************************************************)
(* C5: a line whose payload is valid JSON but not an object (null, array,  *)
(* scalar) is emitted as it came, whatever the matched routes and their    *)
(* response actions; the worker does not crash on it and goes on.          *)
(***************************************************************************)
C5_NonObjectLinePassesThrough ==
    /\ wpc = "panic" => ~nonObjectJSON(scanned[Len(scanned)])
    /\ \A i \in 1..Len(scanned) :
          (nonObjectJSON(scanned[i]) /\ lineWritten(i))
              => emitted[i] = lineText(scanned[i]) \o <<LfAtom>>

noResponseActions(rs) == \A i \in 1..Len(rs) : Len(rs[i].OnResponse) = 0

(***************************************************************************)
(* C8: when no route handed to the streaming processor has response        *)
(* actions (or no route matched), every line the consumer gets, JSON       *)
(* object lines included, has the bytes of the upstream line.              *)
(***************************************************************************)
C8_NoActionsPassThrough ==
    noResponseActions(sRoutes) =>
        \A i \in 1..Len(scanned) :
            lineWritten(i) => emitted[i] = lineText(scanned[i]) \o <<LfAtom>>

\* blank line, data: [DONE], or a line whose payload is not JSON
plainLine(l) ==
    \/ lineText(l) = <<>>
    \/ l.pfx /\ l.payload = DoneText
    \/ l.payload.kind \in {"invalid", "empty"}

\* the stream was read to its end without an error and every byte written
\* was taken
streamedToEnd ==
    wpc = "done" /\ upstream = <<>> /\ upstreamErr = "none" /\ failedAt = <<>>

\* C9 for every line terminator: such lines are emitted with the bytes they
\* came with, and a stream of them reaches the consumer byte for byte
C9_AnyTerminator ==
    /\ \A i \in 1..Len(scanned) :
          (plainLine(scanned[i]) /\ lineWritten(i)) => emitted[i] = lineBytes(scanned[i])
    /\ (streamedToEnd /\ \A i \in 1..Len(scanned) : plainLine(scanned[i]))
          => consumed = streamBytes(scanned)

(***************************************************************************)
(* C9: every non-JSON line, data: [DONE] line and blank line that ends     *)
(* with a single "\n" is emitted byte-identical to the input; for an input *)
(* that consists only of such lines and is read to its end, the bytes the  *)
(* consumer reads equal the upstream bytes.                                *)
(***************************************************************************)
C9_LfLinesPassThrough ==
    /\ \A i \in 1..Len(scanned) :
          (plainLine(scanned[i]) /\ scanned[i].term = "lf" /\ lineWritten(i))
              => emitted[i] = lineBytes(scanned[i])
    /\ (streamedToEnd
        /\ \A i \in 1..Len(scanned) : plainLine(scanned[i]) /\ scanned[i].term = "lf")
          => consumed = streamBytes(scanned)

\* a blank line and a data: [DONE] line went through routes with response
\* actions and the consumer has the upstream bytes
C9_Witness ==
    /\ streamedToEnd /\ Len(scanned) = 2 /\ ~noResponseActions(sRoutes)
    /\ scanned[1] = Line(FALSE, EmptyText, "lf")
    /\ scanned[2] = Line(TRUE, DoneText, "lf")
    /\ consumed = <<LfAtom, PfxAtom, DoneText, LfAtom>>

(***************************************************************************)
(* Request and response processors                                         *)
(***************************************************************************)
\* io.LimitReader(body, 10*1024*1024)
ReadCap == 10 * 1024 * 1024

\* bodies longer than the cap: a JSON object that ends beyond it, and text
\* that is not JSON
BigObjText(m) == [kind |-> "object", obj |-> m, canon |-> FALSE, len |-> ReadCap + 9]
BigInvalidText == [kind |-> "invalid", obj |-> EmptyFcn, canon |-> FALSE, len |-> ReadCap + 7]

\* nothing is read
readNothing(t) == EmptyText

\* io.ReadAll(io.LimitReader(body, cap)): the first cap bytes; the cut-off
\* start of a longer text is not JSON
LimitRead(t) ==
    IF t.len <= ReadCap THEN t
    ELSE [kind |-> "invalid", obj |-> EmptyFcn, canon |-> FALSE, len |-> ReadCap]

\* a request: Body is <<>> for a nil req.Body, else <<text>>
Request(method, path, body) ==
    [Method |-> method, Path |-> path, Body |-> body,
     ContentLength |-> IF body = <<>> THEN 0 ELSE body[1].len]

\* a response: Lines is the body of an event-stream, Body that of any other
Response(contentType, body, lines) ==
    [ContentType |-> contentType, Body |-> body, Lines |-> lines,
     ContentLength |-> body.len]

\* strings.Contains(contentType, ...) on the content types of the model
IsEventStream(ct) == ct \in {"text/event-stream", "text/event-stream; charset=utf-8"}
IsJSONType(ct) == ct \in {"application/json", "application/json; charset=utf-8"}

\* only the first matching route
MatchFirstRoute(rq, rs) ==
    IF \E i \in 1..Len(rs) : Matches(rs[i].Methods, rq.Method) /\ Matches(rs[i].Paths, rq.Path)
    THEN <<CHOOSE i \in 1..Len(rs) :
             /\ Matches(rs[i].Methods, rq.Method) /\ Matches(rs[i].Paths, rq.Path)
             /\ \A j \in 1..(i - 1) :
                   ~(Matches(rs[j].Methods, rq.Method) /\ Matches(rs[j].Paths, rq.Path))>>
    ELSE <<>>

\* each route is matched on the path as the matched routes before it have
\* rewritten it
RECURSIVE matchFrom(_, _, _, _, _)
matchFrom(i, rq, rs, path, acc) ==
    IF i > Len(rs) THEN acc
    ELSE IF Matches(rs[i].Methods, rq.Method) /\ Matches(rs[i].Paths, path)
    THEN matchFrom(i + 1, rq, rs,
                   IF rs[i].TargetPath # "" THEN rs[i].TargetPath ELSE path,
                   Append(acc, i))
    ELSE matchFrom(i + 1, rq, rs, path, acc)
MatchRoutesOnRewrittenPath(rq, rs) == matchFrom(1, rq, rs, rq.Path, <<>>)

\* MatchRoutes: the indices of the matching routes, in order
MatchRoutes(rq, rs) ==
    SelectSeq([i \in 1..Len(rs) |-> i],
              LAMBDA i : Matches(rs[i].Methods, rq.Method) /\ Matches(rs[i].Paths, rq.Path))

\* the routes at these indices
routesAt(rs, idx) == [k \in 1..Len(idx) |-> rs[idx[k]]]

\* only a route with request actions rewrites the path
rewritePathIfActions(rule, path) ==
    IF rule.TargetPath # "" /\ Len(rule.OnRequest) > 0 THEN rule.TargetPath ELSE path

\* "if rule.TargetPath != "" { ... req.URL.Path = rule.TargetPath }"
rewritePath(rule, path) ==
    IF rule.TargetPath # "" THEN rule.TargetPath ELSE path

\* ModifyRequest's loop over the matched routes: path rewrite, then
\* ProcessRequest when the body parsed and the route has request actions.
\* lp carries the pass state, the path and the number of pipeline calls.
RECURSIVE requestRoutesFrom(_, _, _, _, _, _)
requestRoutesFrom(i, rs, lp, hasJSONBody, h, q) ==
    IF i > Len(rs) \/ lp.st.panic THEN lp
    ELSE Only({
        IF ~hasJSONBody \/ Len(rs[i].OnRequest) = 0
        THEN requestRoutesFrom(i + 1, rs, [lp EXCEPT !.path = np], hasJSONBody, h, q)
        ELSE Only({requestRoutesFrom(i + 1, rs,
                      [st |-> [n EXCEPT !.appliedValues =
                                          IF n.anyApplied
                                          THEN MapCopy(lp.st.appliedValues, n.appliedValues)
                                          ELSE lp.st.appliedValues,
                                        !.anyApplied = lp.st.anyApplied \/ n.anyApplied],
                       path |-> np, runs |-> lp.runs + 1], hasJSONBody, h, q) :
                   n \in {processActions(lp.st.data, h, q, rs[i].Compiled[1].OnRequest,
                                         rs[i].Compiled[1].OnRequestTemplates)}}) :
        np \in {rewritePath(rs[i], lp.path)} })

\* the end of ModifyRequest: the body and content length that go upstream
requestOut(rq, body, hasJSONBody, lp) ==
    IF lp.st.panic
    THEN [panic |-> TRUE, marshalFailed |-> FALSE, Path |-> lp.path, Body |-> rq.Body,
          ContentLength |-> rq.ContentLength, runs |-> lp.runs]
    ELSE IF hasJSONBody
    THEN Only({ IF j.err
                THEN [panic |-> FALSE, marshalFailed |-> TRUE, Path |-> lp.path,
                      Body |-> <<body>>, ContentLength |-> rq.ContentLength,
                      runs |-> lp.runs]
                ELSE [panic |-> FALSE, marshalFailed |-> FALSE, Path |-> lp.path,
                      Body |-> <<j.text>>, ContentLength |-> j.text.len,
                      runs |-> lp.runs] :
                j \in {Marshal(lp.st.data)} })
    ELSE [panic |-> FALSE, marshalFailed |-> FALSE, Path |-> lp.path,
          Body |-> IF body.len > 0 THEN <<body>> ELSE rq.Body,
          ContentLength |-> rq.ContentLength, runs |-> lp.runs]

\* ModifyRequest(req, routes): what is forwarded, and the route context
ModifyRequestResult(rq, rs, h, q) ==
    Only({ Only({ Only({ [fwd |-> requestOut(rq, body, ~u.err, lp),
                          ctx |-> MatchRoutes(rq, rs)] :
                         lp \in {requestRoutesFrom(1, routesAt(rs, MatchRoutes(rq, rs)),
                                    [st |-> PassState(u.data), path |-> rq.Path, runs |-> 0],
                                    ~u.err, h, q)} }) :
                  u \in {IF body.len > 0 THEN Unmarshal(body)
                         ELSE [err |-> TRUE, data |-> NilMap]} }) :
           body \in {IF rq.Body = <<>> THEN EmptyText ELSE LimitRead(rq.Body[1])} })

\* ModifyResponse from json.Unmarshal on: the matched routes' response
\* actions, then json.Marshal
responseOut(body, rs, h, q) ==
    Only({ IF u.err
           THEN [panic |-> FALSE, err |-> "", marshalFailed |-> FALSE, streaming |-> FALSE,
                 Body |-> body, ContentLength |-> body.len]
           ELSE Only({ IF st.panic
                       THEN [panic |-> TRUE, err |-> "", marshalFailed |-> FALSE,
                             streaming |-> FALSE, Body |-> body, ContentLength |-> body.len]
                       ELSE Only({ IF j.err
                                   THEN [panic |-> FALSE,
                                         err |-> "failed to marshal modified response JSON",
                                         marshalFailed |-> TRUE, streaming |-> FALSE,
                                         Body |-> body, ContentLength |-> body.len]
                                   ELSE [panic |-> FALSE, err |-> "", marshalFailed |-> FALSE,
                                         streaming |-> FALSE,
                                         Body |-> j.text, ContentLength |-> j.text.len] :
                                   j \in {Marshal(st.data)} }) :
                       st \in {responseRoutesFrom(1, rs, PassState(u.data), h, q, TRUE)} }) :
           u \in {Unmarshal(body)} })

\* an event-stream goes to the streaming processor only when a matched
\* route has response actions
ModifyResponseResultStreamsForActions(rp, rs, q) ==
    IF IsEventStream(rp.ContentType) /\ Len(rs) > 0 /\ ~noResponseActions(rs)
    THEN [panic |-> FALSE, err |-> "", marshalFailed |-> FALSE, streaming |-> TRUE,
          Body |-> rp.Body, ContentLength |-> rp.ContentLength]
    ELSE Only({
        IF Len(rs) = 0 \/ noResponseActions(rs) \/ ~IsJSONType(rp.ContentType)
        THEN [panic |-> FALSE, err |-> "", marshalFailed |-> FALSE, streaming |-> FALSE,
              Body |-> body, ContentLength |-> body.len]
        ELSE responseOut(body, rs, ("Content-Type" :> rp.ContentType), q) :
        body \in {LimitRead(rp.Body)} })

\* ModifyResponse(resp, routes) with the routes of the request's context:
\* the error it returns and the body it leaves in resp
ModifyResponseResult(rp, rs, q) ==
    IF IsEventStream(rp.ContentType)
    THEN [panic |-> FALSE, err |-> "", marshalFailed |-> FALSE, streaming |-> TRUE,
          Body |-> rp.Body, ContentLength |-> rp.ContentLength]
    ELSE Only({
        IF Len(rs) = 0 \/ noResponseActions(rs) \/ ~IsJSONType(rp.ContentType)
        THEN [panic |-> FALSE, err |-> "", marshalFailed |-> FALSE, streaming |-> FALSE,
              Body |-> body, ContentLength |-> body.len]
        ELSE responseOut(body, rs, ("Content-Type" :> rp.ContentType), q) :
        body \in {LimitRead(rp.Body)} })

(***************************************************************************)
(* One transaction: ModifyRequest, the upstream's response, ModifyResponse *)
(***************************************************************************)
MaxRoutes == 2

InfRequestRoute ==
    MkRoute(<<"POST">>, <<".*">>, "/b",
            <<CfgAction(When(RawBodyLeaf("a", "x")), <<>>, "", ("b" :> Inf), EmptyFcn, {}, FALSE)>>,
            <<>>)
AnyMethodRoute ==
    MkRoute(<<"GET", "POST">>, <<"^/a$">>, "",
            <<CfgAction(NoWhen, <<>>, "", EmptyFcn, EmptyFcn, {"a"}, FALSE)>>,
            <<CfgAction(NoWhen, <<>>, "", EmptyFcn, ("a" :> "y"), {}, TRUE)>>)

MergeOtherRoute ==
    MkRoute(<<"POST">>, <<".*">>, "",
            <<CfgAction(NoWhen, <<>>, "", ("c" :> "x"), EmptyFcn, {}, FALSE)>>,
            <<CfgAction(NoWhen, <<>>, "", ("c" :> "y"), EmptyFcn, {}, FALSE)>>)

\* a rewrite for every request, and a route for the path another one rewrites to
RewriteRoute ==
    MkRoute(<<"GET", "POST">>, <<".*">>, "/c", <<>>,
            <<CfgAction(NoWhen, <<>>, "", EmptyFcn, ("c" :> "y"), {}, FALSE)>>)
RewrittenPathRoute ==
    MkRoute(<<"POST">>, <<"^/b$">>, "/a",
            <<CfgAction(NoWhen, <<>>, "", ("c" :> "y"), EmptyFcn, {}, FALSE)>>, <<>>)

HttpRouteMenu ==
    {RequestOnlyRoute, MergeResponseRoute, InfResponseRoute, InfRequestRoute, AnyMethodRoute,
     MergeOtherRoute, RewriteRoute, RewrittenPathRoute}

HttpBodies ==
    {<<>>, <<EmptyText>>, <<ObjText(("a" :> "x"))>>, <<LooseObjText(EmptyFcn)>>,
     <<NullText>>, <<ArrayText>>, <<InvalidText>>, <<BigInvalidText>>}

Requests ==
    {Request(mp[1], mp[2], b) :
        mp \in {<<"POST", "/a">>, <<"GET", "/a">>, <<"POST", "/b">>}, b \in HttpBodies}

Responses ==
    {Response(ct, b, <<>>) :
        ct \in {"application/json", "text/plain"},
        b \in {ObjText(("a" :> "x")), LooseObjText(EmptyFcn), NullText, InvalidText,
               BigObjText(("a" :> "x")), EmptyText}}
    \cup {Response("text/event-stream", EmptyText, ls) :
            ls \in {<<Line(TRUE, ObjText(("a" :> "x")), "lf"), Line(TRUE, DoneText, "lf")>>,
                    <<Line(FALSE, LooseObjText(("a" :> "x")), "lf")>>}}
    \cup {Response("text/event-stream; charset=utf-8", EmptyText,
                   <<Line(TRUE, DoneText, "lf")>>)}

\* ModifyRequest(req, routes), the Director of the reverse proxy
ModifyRequest ==
    /\ hpc = "idle"
    /\ UNCHANGED <<txns, logVars, callVars, loadVars>>
    /\ \E r \in {ModifyRequestResult(req, routes, EmptyFcn, NoQuery)} :
          /\ fwd' = [Method |-> req.Method, Path |-> r.fwd.Path, Body |-> r.fwd.Body,
                     ContentLength |-> r.fwd.ContentLength,
                     marshalFailed |-> r.fwd.marshalFailed]
          /\ ctxRoutes' = r.ctx
          /\ pipelineRuns' = r.fwd.runs
          /\ hpc' = IF r.fwd.panic THEN "panic" ELSE "requested"
    /\ UNCHANGED <<routes, req, resp, out>>
    /\ UNCHANGED <<pipeVars, cfgVars, streamVars>>

\* the context read with the routes matched again, on the forwarded path
contextRematched(ctx) == MatchRoutes([req EXCEPT !.Path = fwd.Path], routes)

\* resp.Request.Context().Value(routeContextKey): the indices ModifyRequest
\* stored for the transaction
contextRoutes(ctx) == ctx

\* the upstream answers and ModifyResponse(resp, routes) runs; an
\* event-stream is handed to ModifyStreamingResponse, which starts the worker
ModifyResponse ==
    /\ hpc = "requested"
    /\ UNCHANGED <<txns, logVars, callVars, loadVars>>
    /\ \E rp \in Responses :
       \E idx \in {contextRoutes(ctxRoutes)} :
       \E r \in {ModifyResponseResult(rp, routesAt(routes, idx), NoQuery)} :
          /\ resp' = rp
          /\ out' = [err |-> r.err, Body |-> r.Body, ContentLength |-> r.ContentLength,
                     marshalFailed |-> r.marshalFailed, streaming |-> r.streaming,
                     indices |-> idx]
          /\ hpc' = IF r.panic THEN "panic" ELSE "responded"
          /\ IF r.streaming
             THEN /\ sRoutes' = routesAt(routes, idx)
                  /\ upstream' = rp.Lines
                  /\ wpc' = "scan"
             ELSE UNCHANGED <<sRoutes, upstream, wpc>>
    /\ UNCHANGED <<routes, req, fwd, ctxRoutes, pipelineRuns>>
    /\ UNCHANGED <<upstreamErr, pending, readerClosed, writerClosed, bodyClosed,
                   consumed, scanned, emitted, failedAt>>
    /\ UNCHANGED <<pipeVars, cfgVars>>

NextHttp ==
    ModifyRequest \/ ModifyResponse \/ WorkerScan \/ WorkerWrite \/ WorkerWriteFails
        \/ WorkerEnd \/ ConsumerClose

InitHttp ==
    /\ routes \in SeqsUpTo(HttpRouteMenu, MaxRoutes) \cup {<<>>}
    /\ req \in Requests
    /\ hpc = "idle" /\ fwd = <<>> /\ ctxRoutes = <<>> /\ resp = <<>> /\ out = <<>>
    /\ pipelineRuns = 0
    /\ ops = <<>> /\ templates = <<>> /\ data = EmptyMap /\ headers = EmptyFcn
    /\ appliedValues = EmptyFcn /\ anyApplied = FALSE /\ opIdx = 1 /\ ppc = "returned"
    /\ evaluated = <<>> /\ executed = <<>> /\ received = EmptyMap
    /\ bodyBefore = EmptyMap /\ lastTmpl = "none" /\ query = EmptyFcn
    /\ cfgRoutes = <<>> /\ cfgState = "off" /\ cfgErr = ""
    /\ sRoutes = <<>> /\ upstream = <<>> /\ upstreamErr = "none" /\ wpc = "off"
    /\ pending = <<>> /\ readerClosed = FALSE /\ writerClosed = "open"
    /\ bodyClosed = FALSE /\ consumed = <<>> /\ scanned = <<>> /\ emitted = <<>>
    /\ failedAt = <<>> /\ txns = <<>> /\ logHeaders = <<>> /\ logged = <<>>
    /\ evalArgs = <<>> /\ evalResults = <<>>
    /\ files = <<>> /\ loadStack = <<>> /\ watchedFiles = <<>> /\ loadState = "off"

SpecHttp == InitHttp /\ [][NextHttp]_vars

\* a request body that is there and is not a JSON object
nonObjectBody(rq) ==
    rq.Body # <<>> /\ rq.Body[1].kind \in {"invalid", "array", "scalar", "null"}

(***************************************************************************)
(* C6: a request whose body is not a JSON object (not JSON, or an array,   *)
(* a scalar or null) is never given to the action pipeline, and the bytes  *)
(* forwarded upstream are the bytes received.  Stated for the bodies that  *)
(* fit the read cap; a longer one is cut at the cap.                       *)
(***************************************************************************)
C6_NonObjectRequestUntouched ==
    (hpc # "idle" /\ nonObjectBody(req) /\ req.Body[1].len <= ReadCap) =>
        /\ pipelineRuns = 0
        /\ hpc # "panic"
        /\ fwd.Body = req.Body

\* ModifyResponse returned on one of its three pass-through conditions
passedThrough ==
    /\ hpc = "responded" /\ ~out.streaming
    /\ \/ Len(ctxRoutes) = 0
       \/ noResponseActions(routesAt(routes, ctxRoutes))
       \/ ~IsJSONType(resp.ContentType)

\* C7 for every length: a pass-through response keeps its body whatever the
\* body's length
C7_AnyLength ==
    passedThrough => out.Body = resp.Body /\ out.err = ""

(***************************************************************************)
(* C7: for a non-streaming response of at most 10 MiB for which no route   *)
(* matched, or no matched route has response actions, or the content type  *)
(* is not JSON, the body delivered downstream is byte-identical to the     *)
(* upstream body (and no error is returned).                               *)
(***************************************************************************)
C7_PassThroughWithinCap ==
    (passedThrough /\ resp.Body.len <= ReadCap) =>
        /\ out.Body = resp.Body
        /\ out.ContentLength = resp.Body.len
        /\ out.err = ""

\* a JSON body that is not in json.Marshal's form came back as it was, past
\* a matched route with response actions, because the content type is not JSON
C7_Witness ==
    /\ passedThrough
    /\ Len(ctxRoutes) > 0 /\ ~noResponseActions(routesAt(routes, ctxRoutes))
    /\ resp.ContentType = "text/plain"
    /\ resp.Body = LooseObjText(EmptyFcn)
    /\ out.Body = resp.Body

\* the worker parses the line's payload and json.Marshal fails on what the
\* routes made of it
lineMarshalFails(l, rs, h, q) ==
    /\ lineText(l) # <<>>
    /\ ~(l.pfx /\ l.payload = DoneText)
    /\ ~Unmarshal(l.payload).err
    /\ Only({~st.panic /\ Marshal(st.data).err :
             st \in {responseRoutesFrom(1, rs, PassState(Unmarshal(l.payload).data),
                                        h, q, FALSE)}})

(***************************************************************************)
(* C10: when json.Marshal of the mutated body fails, in ModifyRequest, in  *)
(* ModifyResponse or for one streamed line, the original bytes are         *)
(* forwarded and the transaction goes on: no error is returned to the      *)
(* transport and the worker goes on to the following lines.                *)
(***************************************************************************)
C10_MarshalFailureFallsBack ==
    /\ (hpc # "idle" /\ fwd.marshalFailed)
          => fwd.Body = req.Body /\ hpc # "panic"
    /\ (hpc = "responded" /\ out.marshalFailed)
          => out.Body = resp.Body /\ out.err = ""
    /\ \A i \in 1..Len(scanned) :
          (lineWritten(i) /\ lineMarshalFails(scanned[i], sRoutes, StreamHeaders, NoQuery))
              => /\ emitted[i] = lineText(scanned[i]) \o <<LfAtom>>
                 /\ wpc # "panic"

(***************************************************************************)
(* C11: ExecuteTemplate succeeds only when the rendered text is a JSON     *)
(* object; for every other rendered text (not JSON, or JSON null, array or *)
(* scalar) it reports failure and the body keeps its keys and values.      *)
(***************************************************************************)
C11_OnlyObjectOutputSucceeds ==
    (executed # <<>> /\ lastTmpl \in {"null", "array", "scalar", "invalid"}) =>
        \A e \in {ExecuteTemplate(templates[executed[Len(executed)]], bodyBefore)} :
            ~e.ok /\ e.data = bodyBefore

\* the body after the actions at the indices idx ran, in this order, from st
RECURSIVE bodyAfter(_, _)
bodyAfter(idx, st) ==
    IF idx = <<>> \/ st.panic THEN st
    ELSE Only({bodyAfter(Tail(idx), n) :
               n \in {runOp(ops[Head(idx)], templates[Head(idx)], st)}})

(***************************************************************************)
(* C12: the predicate of the i-th action is evaluated against the body as  *)
(* mutated by the non-skipped actions before it in the pass, not against   *)
(* the body as received: the body at every moment is the received body     *)
(* after the actions executed so far, and the next action is executed iff  *)
(* it has no predicate or its predicate holds of that body.                *)
(***************************************************************************)
C12_PredicateSeesCurrentBody ==
    /\ [](ppc # "panic" => data = bodyAfter(executed, PassState(received)).data)
    /\ [][ (ppc = "loop" /\ opIdx <= Len(ops)) =>
              /\ evaluated' = Append(evaluated, opIdx)
              /\ (executed' = Append(executed, opIdx))
                    <=> ( \/ ops[opIdx].When = <<>>
                          \/ Evaluate(ops[opIdx].When, data, headers, NoQuery) ) ]_vars

\* on the body {"a":"x"}: the first action deletes a and adds b, the second,
\* guarded on a, is skipped, and the third, guarded on b, is executed
C12_Witness ==
    /\ ppc = "returned" /\ Len(ops) = 3
    /\ received = Obj(("a" :> "x"))
    /\ ops[2].When = <<BodyLeaf("a", "x")>>
    /\ ops[3].When = <<BodyLeaf("b", ".*")>>
    /\ evaluated = <<1, 2, 3>> /\ executed = <<1, 3>>

\* the actions and templates of a compiled route for a phase
phaseActions(rt, phase) ==
    IF phase = "request"
    THEN [acts |-> rt.Compiled[1].OnRequest, tmpls |-> rt.Compiled[1].OnRequestTemplates]
    ELSE [acts |-> rt.Compiled[1].OnResponse, tmpls |-> rt.Compiled[1].OnResponseTemplates]

\* the body after the pipelines of the routes rs ran one after another, in
\* this order, each on the body the one before it left
RECURSIVE inOrder(_, _, _, _, _)
inOrder(phase, rs, d, h, q) ==
    IF rs = <<>> THEN d
    ELSE Only({ IF Len(pa.acts) = 0 THEN inOrder(phase, Tail(rs), d, h, q)
                ELSE Only({inOrder(phase, Tail(rs), n.data, h, q) :
                           n \in {processActions(d, h, q, pa.acts, pa.tmpls)}}) :
                pa \in {phaseActions(Head(rs), phase)} })

\* every response action of the route only merges, unconditionally
mergeOnly(rt) ==
    \A j \in 1..Len(rt.OnResponse) :
        /\ rt.OnResponse[j].When = <<>> /\ rt.OnResponse[j].Template = ""
        /\ DOMAIN rt.OnResponse[j].Default = {} /\ rt.OnResponse[j].Delete = {}

\* the keys the route's response actions merge
mergedKeys(rt) == UNION {DOMAIN rt.OnResponse[j].Merge : j \in 1..Len(rt.OnResponse)}

\* ModifyRequest parsed the body as an object and forwarded its marshalled form
requestProcessed ==
    /\ hpc \in {"requested", "responded"}
    /\ req.Body # <<>> /\ req.Body[1].kind = "object" /\ req.Body[1].len <= ReadCap
    /\ ~fwd.marshalFailed

\* ModifyResponse parsed the body as an object, ran the response actions and
\* delivered the marshalled result
responseProcessed ==
    /\ hpc = "responded" /\ ~out.streaming /\ ~out.marshalFailed
    /\ IsJSONType(resp.ContentType)
    /\ resp.Body.kind = "object" /\ resp.Body.len <= ReadCap
    /\ ~noResponseActions(routesAt(routes, ctxRoutes))

(***************************************************************************)
(* C13: when several routes match a transaction their pipelines run one    *)
(* after another in declaration order on the same body, each on the body   *)
(* the earlier ones left, in the request and in the response phase; with   *)
(* merge-only routes on disjoint keys the final body holds every merged    *)
(* key and every untouched original key.                                   *)
(***************************************************************************)
C13_RoutesRunInOrder ==
    /\ requestProcessed =>
          fwd.Body = <<ObjText(inOrder("request", routesAt(routes, ctxRoutes),
                                       Obj(req.Body[1].obj), EmptyFcn, NoQuery).m)>>
    /\ responseProcessed =>
          /\ out.Body = ObjText(inOrder("response", routesAt(routes, ctxRoutes),
                                        Obj(resp.Body.obj),
                                        ("Content-Type" :> resp.ContentType), NoQuery).m)
          /\ ( /\ \A k \in 1..Len(ctxRoutes) : mergeOnly(routes[ctxRoutes[k]])
               /\ \A k \in 1..Len(ctxRoutes) : \A j \in 1..Len(ctxRoutes) :
                     k # j => mergedKeys(routes[ctxRoutes[k]])
                                 \cap mergedKeys(routes[ctxRoutes[j]]) = {} )
             => /\ \A k \in 1..Len(ctxRoutes) :
                     \A j \in 1..Len(routes[ctxRoutes[k]].OnResponse) :
                        \A key \in DOMAIN routes[ctxRoutes[k]].OnResponse[j].Merge :
                           /\ key \in DOMAIN out.Body.obj
                           /\ out.Body.obj[key] = routes[ctxRoutes[k]].OnResponse[j].Merge[key]
                /\ \A key \in DOMAIN resp.Body.obj :
                     /\ key \in DOMAIN out.Body.obj
                     /\ (\A k \in 1..Len(ctxRoutes) : key \notin mergedKeys(routes[ctxRoutes[k]]))
                           => out.Body.obj[key] = resp.Body.obj[key]

\* two matched routes merged b and c into the response body {"a":"x"}
C13_Witness ==
    /\ responseProcessed
    /\ routes = <<MergeResponseRoute, MergeOtherRoute>> /\ ctxRoutes = <<1, 2>>
    /\ resp.Body.obj = ("a" :> "x")
    /\ out.Body = ObjText(("a" :> "x") @@ ("b" :> "y") @@ ("c" :> "y"))

\* the first response action of the route has no predicate and has stop set:
\* whenever the route's pipeline runs, its stop fires
stopSurelyFires(rt) ==
    Len(rt.OnResponse) > 0 /\ rt.OnResponse[1].When = <<>> /\ rt.OnResponse[1].Stop

\* a response action of the route, from action j on, may write or remove key
touchesFrom(rt, j, key) ==
    \E i \in j..Len(rt.OnResponse) :
        \/ key \in DOMAIN rt.OnResponse[i].Merge
        \/ key \in DOMAIN rt.OnResponse[i].Default
        \/ key \in rt.OnResponse[i].Delete
        \/ rt.OnResponse[i].Template # ""

(***************************************************************************)
(* C14: a stop flag ends only the action list of its own route and phase:  *)
(* after a stop fired in a matched route, the response actions of every    *)
(* later matched route still run against the body (what the first,         *)
(* unconditional action of a later route merges is in the delivered body   *)
(* unless a later action touches the key).                                 *)
(***************************************************************************)
C14_StopStaysInRoute ==
    responseProcessed =>
        \A j \in 1..Len(ctxRoutes) : \A k \in 1..Len(ctxRoutes) :
            ( /\ j < k
              /\ stopSurelyFires(routes[ctxRoutes[j]])
              /\ Len(routes[ctxRoutes[k]].OnResponse) > 0
              /\ routes[ctxRoutes[k]].OnResponse[1].When = <<>> )
            => \A key \in DOMAIN routes[ctxRoutes[k]].OnResponse[1].Merge :
                  ( /\ ~touchesFrom(routes[ctxRoutes[k]], 2, key)
                    /\ \A n \in (k + 1)..Len(ctxRoutes) :
                          ~touchesFrom(routes[ctxRoutes[n]], 1, key) )
                  => /\ key \in DOMAIN out.Body.obj
                     /\ out.Body.obj[key] = routes[ctxRoutes[k]].OnResponse[1].Merge[key]

\* the first matched route added a by default and stopped, the second still
\* merged b
C14_Witness ==
    /\ responseProcessed
    /\ routes = <<AnyMethodRoute, MergeResponseRoute>> /\ ctxRoutes = <<1, 2>>
    /\ resp.Body.obj = EmptyFcn
    /\ out.Body = ObjText(("a" :> "y") @@ ("b" :> "y"))

(***************************************************************************)
(* C15: MatchRoutes returns exactly the routes whose method pattern        *)
(* matches the request method and whose path pattern matches the request   *)
(* path, in declaration order, each with its original index (the indices   *)
(* are strictly increasing); no matching route is dropped because an       *)
(* earlier one matched.                                                    *)
(***************************************************************************)
C15_MatchRoutesExact ==
    hpc \in {"requested", "responded"} =>
        /\ \A k \in 1..Len(ctxRoutes) : ctxRoutes[k] \in 1..Len(routes)
        /\ \A k \in 1..(Len(ctxRoutes) - 1) : ctxRoutes[k] < ctxRoutes[k + 1]
        /\ \A i \in 1..Len(routes) :
              (\E k \in 1..Len(ctxRoutes) : ctxRoutes[k] = i)
                 <=> ( /\ \E n \in 1..Len(routes[i].Methods.Compiled) :
                             RegexMatch(routes[i].Methods.Compiled[n], req.Method)
                       /\ \E n \in 1..Len(routes[i].Paths.Compiled) :
                             RegexMatch(routes[i].Paths.Compiled[n], req.Path) )

\* both routes of the list match the request and both are returned
C15_Witness ==
    /\ hpc = "requested" /\ Len(routes) = 2 /\ ctxRoutes = <<1, 2>>
    /\ routes[1] # routes[2]

\* the indices of the routes whose patterns match the request, ascending
matchingIndices(rq, rs) ==
    CHOOSE sq \in UNION {[1..n -> 1..Len(rs)] : n \in 0..Len(rs)} :
        /\ \A k \in 1..(Len(sq) - 1) : sq[k] < sq[k + 1]
        /\ \A i \in 1..Len(rs) :
              (\E k \in 1..Len(sq) : sq[k] = i)
                 <=> (Matches(rs[i].Methods, rq.Method) /\ Matches(rs[i].Paths, rq.Path))

(***************************************************************************)
(* C16: the routes (with their original indices) whose response actions    *)
(* ModifyResponse or the streaming processor applies in a transaction are  *)
(* exactly, and in the same order, those ModifyRequest matched for the     *)
(* request as it came in; the response phase never re-matches, adds or     *)
(* drops a route.                                                          *)
(***************************************************************************)
C16_ResponseUsesRequestRoutes ==
    hpc = "responded" =>
        /\ out.indices = ctxRoutes
        /\ out.indices = matchingIndices(req, routes)
        /\ out.streaming => sRoutes = routesAt(routes, matchingIndices(req, routes))
        /\ responseProcessed =>
              out.Body = ObjText(inOrder("response",
                                         routesAt(routes, matchingIndices(req, routes)),
                                         Obj(resp.Body.obj),
                                         ("Content-Type" :> resp.ContentType), NoQuery).m)

\* the first route rewrote the path to /b; the second, which matches /a
\* only, still merged b into the response
C16_Witness ==
    /\ responseProcessed
    /\ routes = <<InfRequestRoute, MergeResponseRoute>>
    /\ req.Path = "/a" /\ fwd.Path = "/b"
    /\ out.indices = <<1, 2>>
    /\ out.Body.obj = ("a" :> "x") @@ ("b" :> "y")


\* the line's payload is a JSON object
objectLine(l) == l.payload.kind = "object"

\* what the pipelines of the routes, in order, make of the line's object
lineObject(l, rs) == inOrder("response", rs, Obj(l.payload.obj), StreamHeaders, NoQuery)

\* the line the claim describes: the prefix if the input had it, the
\* serialised object, one newline
reserialisedLine(l, rs) ==
    (IF l.pfx THEN <<PfxAtom>> ELSE <<>>) \o <<ObjText(lineObject(l, rs).m), LfAtom>>

\* C17 for every object line: the line emitted is the re-serialised object
C17_AlwaysReserialised ==
    \A i \in 1..Len(scanned) :
        (objectLine(scanned[i]) /\ lineWritten(i))
            => emitted[i] = reserialisedLine(scanned[i], sRoutes)

(***************************************************************************)
(* C17: for every streamed line whose payload is a JSON object, the worker *)
(* applies the pipelines of all matched routes in order to the object and  *)
(* emits exactly one output line: if the resulting object can be           *)
(* serialised, the re-serialised object, prefixed with "data: " if and     *)
(* only if the input line had the prefix, and a single newline; if it      *)
(* cannot, the text of the input line and a single newline.                *)
(***************************************************************************)
C17_ObjectLineReserialised ==
    /\ wpc = "panic" => ~objectLine(scanned[Len(scanned)])
    /\ \A i \in 1..Len(scanned) :
          (objectLine(scanned[i]) /\ lineWritten(i))
              => emitted[i] =
                    IF \E k \in DOMAIN lineObject(scanned[i], sRoutes).m :
                          lineObject(scanned[i], sRoutes).m[k] = Inf
                    THEN lineText(scanned[i]) \o <<LfAtom>>
                    ELSE reserialisedLine(scanned[i], sRoutes)

\* a prefixed and an unprefixed object line went through a route that
\* deletes b and one that merges b, in this order
C17_Witness ==
    /\ streamedToEnd /\ Len(scanned) = 2
    /\ sRoutes = <<DeleteResponseRoute, MergeResponseRoute>>
    /\ scanned[1] = Line(TRUE, ObjText(("a" :> "x")), "lf")
    /\ scanned[2] = Line(FALSE, LooseObjText(("a" :> "x")), "lf")
    /\ consumed = <<PfxAtom, ObjText(("a" :> "x") @@ ("b" :> "y")), LfAtom,
                    ObjText(("a" :> "x") @@ ("b" :> "y")), LfAtom>>


\* the byte sequences one after another
RECURSIVE concatAll(_)
concatAll(ss) == IF ss = <<>> THEN <<>> ELSE Head(ss) \o concatAll(Tail(ss))

\* bytes is one output line for the input line l: the prefix if l has it, a
\* payload of the kind of l's payload if l has one, and one newline at the end
oneLineOf(l, bytes) ==
    \E body \in {SubSeq(bytes, 1, Len(bytes) - 1)} :
        /\ bytes # <<>> /\ bytes[Len(bytes)] = LfAtom
        /\ \A k \in 1..Len(body) : body[k] # LfAtom
        /\ Len(body) = Len(lineText(l))
        /\ \A k \in 1..Len(body) : body[k].kind = lineText(l)[k].kind

\* the worker takes the input lines one by one from the front
inputKept == scanned' \o upstream' = scanned \o upstream

\* what the consumer has read is, line for line, the output of the input
\* lines the worker took
consumedInOrder ==
    /\ Len(emitted) = Len(scanned)
    /\ consumed = concatAll(emitted)
    /\ \A i \in 1..Len(scanned) :
          IF lineWritten(i) THEN oneLineOf(scanned[i], emitted[i])
          ELSE /\ \A k \in 1..Len(emitted[i]) : emitted[i][k] # LfAtom
               /\ \A j \in (i + 1)..Len(scanned) : emitted[j] = <<>>

(***************************************************************************)
(* C18: under every interleaving of the worker and the consumer, the lines *)
(* the consumer reads are in the order of the input lines, one output line *)
(* per input line, none duplicated, merged or skipped.                     *)
(***************************************************************************)
C18_LinesInInputOrder == []consumedInOrder /\ [][inputKept]_vars

\* two different lines were streamed to the end through a route with
\* response actions and the consumer has one line for each, in order
C18_Witness ==
    /\ streamedToEnd /\ ~readerClosed /\ Len(scanned) = 2
    /\ sRoutes = <<MergeResponseRoute>>
    /\ scanned[1] = Line(TRUE, ObjText(("a" :> "x")), "lf")
    /\ scanned[2] = Line(TRUE, DoneText, "lf")
    /\ consumed = <<PfxAtom, ObjText(("a" :> "x") @@ ("b" :> "y")), LfAtom,
                    PfxAtom, DoneText, LfAtom>>


\* the writes the worker still has to make, all of the line scanned last
heldOutput == concatAll([k \in 1..Len(pending) |-> pending[k].bytes])

\* the output held between worker and consumer is part of the output of the
\* one line the worker is at, and every line before that one was handed over
\* in full unless the consumer had closed the conduit and refused it
oneLineHeld ==
    /\ wpc # "write" => pending = <<>>
    /\ Len(pending) <= 3
    /\ wpc = "write" =>
          oneLineOf(scanned[Len(scanned)], emitted[Len(emitted)] \o heldOutput)
    /\ \A i \in 1..(Len(scanned) - 1) :
          \/ oneLineOf(scanned[i], emitted[i])
          \/ readerClosed /\ i \in Range(failedAt)

\* while output waits for a consumer that has not closed the conduit, the
\* worker can neither take the next line nor end
workerBlocked ==
    (wpc = "write" /\ ~readerClosed) => ~ENABLED WorkerScan /\ ~ENABLED WorkerEnd

\* a line is taken from the input only when nothing is held
scansWhenHandedOver == Len(scanned') > Len(scanned) => pending = <<>>

pipeRead ==
    IF readerClosed THEN "closed pipe"
    ELSE CASE writerClosed = "error" -> "error"
           [] writerClosed = "eof"   -> "EOF"
           [] OTHER                  -> "blocks"

\* the scan loop ended on a scanner error (a failed read of the upstream body
\* or a line over the scanner's limit) without a write having been refused
endedOnScannerError ==
    wpc = "done" /\ upstream = <<>> /\ upstreamErr # "none" /\ failedAt = <<>>

\* the consumer has every line scanned before the failure, in order, and
\* what follows them is an error; a consumer that did not close the conduit
\* never gets a clean end of a failed stream
failureReachesConsumer ==
    /\ endedOnScannerError =>
          /\ writerClosed = "error"
          /\ ~readerClosed => pipeRead = "error"
          /\ consumed = concatAll(emitted)
          /\ \A i \in 1..Len(scanned) : oneLineOf(scanned[i], emitted[i])
    /\ (upstreamErr # "none" /\ ~readerClosed) => pipeRead # "EOF"

\* once the worker has ended nothing more is scanned or handed over
nothingAfterEnd ==
    wpc = "done" => consumed' = consumed /\ scanned' = scanned /\ wpc' = "done"

(***************************************************************************)
(* C20: when the upstream body errors or a line exceeds the maximum line   *)
(* size, the consumer receives every line that preceded the failure, in    *)
(* order, and then a read error, never a clean end-of-stream; no line is   *)
(* emitted after the failure.                                              *)
(***************************************************************************)
C20_FailureAfterLines == []failureReachesConsumer /\ [][nothingAfterEnd]_vars

\* the third line was too long: the consumer has the two lines before it
\* and its next Read returns the error
C20_Witness ==
    /\ endedOnScannerError /\ upstreamErr = "toolong" /\ ~readerClosed
    /\ sRoutes = <<MergeResponseRoute>>
    /\ scanned = <<Line(TRUE, ObjText(("a" :> "x")), "lf"), Line(FALSE, EmptyText, "lf")>>
    /\ consumed = <<PfxAtom, ObjText(("a" :> "x") @@ ("b" :> "y")), LfAtom, LfAtom>>
    /\ pipeRead = "error"


\* the action the pass is at is not skipped and its template renders a JSON
\* object
templateRendersObject ==
    /\ ppc = "loop" /\ opIdx <= Len(ops)
    /\ ~opSkipped(ops[opIdx], data, headers, NoQuery)
    /\ RenderKind(ops[opIdx], templates[opIdx], data) = "object"

\* the object the template of the action the pass is at renders
renderedObject == Render(templates[opIdx], data).text.obj

\* the action executed last has a template and no default, merge or delete
templateOnly(op) ==
    /\ op.Template # "" /\ DOMAIN op.Merge = {} /\ DOMAIN op.Default = {}
    /\ op.Delete = {}

(***************************************************************************)
(* C21: after a successful template action, before the action's default,   *)
(* merge and delete sub-steps, the body's key-value set is the rendered    *)
(* object exactly (old keys absent from it are gone) and applied-values    *)
(* holds every key of the rendered object with its rendered value.         *)
(***************************************************************************)
C21_TemplateReplacesBody ==
    /\ templateRendersObject =>
          \A s \in {stepTemplate(ops[opIdx], templates[opIdx], PassStateNow)} :
            ~s.panic =>
              /\ s.anyApplied
              /\ s.data.m = renderedObject
              /\ \A k \in DOMAIN renderedObject :
                    /\ k \in DOMAIN s.appliedValues
                    /\ s.appliedValues[k] = renderedObject[k]
    /\ (executed # <<>> /\ lastTmpl = "object" /\ ppc # "panic"
        /\ templateOnly(ops[executed[Len(executed)]]))
          => /\ \A k \in DOMAIN data.m : k \in DOMAIN appliedValues
                                           /\ appliedValues[k] = data.m[k]
             /\ anyApplied

\* the template rendered {"b":"y"} over a body that had the key a: a is
\* gone and b is recorded with its value
C21_Witness ==
    /\ executed # <<>> /\ lastTmpl = "object" /\ ppc = "returned"
    /\ templateOnly(ops[executed[Len(executed)]])
    /\ "a" \in DOMAIN bodyBefore.m
    /\ data = Obj(("b" :> "y"))
    /\ "b" \in DOMAIN appliedValues /\ appliedValues["b"] = "y"


\* the map m has at key k what the map n has there: the same value, or no
\* entry in either
sameAt(m, n, k) ==
    /\ k \in DOMAIN m <=> k \in DOMAIN n
    /\ k \in DOMAIN m => m[k] = n[k]

\* the map m has the value v at key k
hasAt(m, k, v) == k \in DOMAIN m /\ m[k] = v

\* default, from the state s before it to the state t after it
defaultStepRight(op, s, t) ==
    \A k \in Keys :
        IF k \in DOMAIN op.Default /\ k \notin DOMAIN s.data.m
        THEN /\ hasAt(t.data.m, k, op.Default[k])
             /\ hasAt(t.ch, k, op.Default[k])
             /\ hasAt(t.appliedValues, k, op.Default[k])
        ELSE sameAt(t.data.m, s.data.m, k) /\ sameAt(t.ch, s.ch, k)

\* merge
mergeStepRight(op, s, t) ==
    \A k \in Keys :
        IF k \in DOMAIN op.Merge
        THEN /\ hasAt(t.data.m, k, op.Merge[k])
             /\ hasAt(t.ch, k, op.Merge[k])
             /\ hasAt(t.appliedValues, k, op.Merge[k])
        ELSE sameAt(t.data.m, s.data.m, k) /\ sameAt(t.ch, s.ch, k)

\* delete
deleteStepRight(op, s, t) ==
    \A k \in Keys :
        IF k \in op.Delete /\ k \in DOMAIN s.data.m
        THEN /\ k \notin DOMAIN t.data.m
             /\ hasAt(t.ch, k, Deleted)
             /\ hasAt(t.appliedValues, k, Deleted)
        ELSE sameAt(t.data.m, s.data.m, k) /\ sameAt(t.ch, s.ch, k)

\* the pass is at an action that is not skipped
atActionToRun ==
    /\ ppc = "loop" /\ opIdx <= Len(ops)
    /\ ~opSkipped(ops[opIdx], data, headers, NoQuery)

(***************************************************************************)
(* C22: for one action that is not skipped, default sets a listed key only *)
(* when the body lacks it and records only the keys it set; merge          *)
(* overwrites every listed key and records each; delete removes every      *)
(* listed key that exists and records it as "<deleted>", a listed key that *)
(* is absent being neither changed nor recorded; keys the action does not  *)
(* list keep their values.  The action's effect on the body is that of the *)
(* three sub-steps in this order.                                          *)
(***************************************************************************)
C22_DefaultMergeDelete ==
    atActionToRun =>
        \A s1 \in {stepTemplate(ops[opIdx], templates[opIdx],
                                [PassStateNow EXCEPT !.ch = EmptyFcn])} :
        \A s2 \in {stepDefault(ops[opIdx], s1)} :
        \A s3 \in {stepMerge(ops[opIdx], s2)} :
        \A s4 \in {stepDelete(ops[opIdx], s3)} :
            ~s4.panic =>
                /\ defaultStepRight(ops[opIdx], s1, s2)
                /\ mergeStepRight(ops[opIdx], s2, s3)
                /\ deleteStepRight(ops[opIdx], s3, s4)
                /\ runOp(ops[opIdx], templates[opIdx], PassStateNow).data = s4.data

\* default b, merge a, delete b on {"a":"x","b":"x"}: the default set
\* nothing, a was overwritten and b removed and recorded as deleted
C22_Witness ==
    /\ ppc = "returned" /\ executed = <<1>> /\ Len(ops) = 1
    /\ ops[1] = Action(NoWhen, "", ("a" :> "y"), ("b" :> "y"), {"b"}, FALSE)
    /\ received = Obj(("a" :> "x") @@ ("b" :> "x"))
    /\ data = Obj(("a" :> "y"))
    /\ appliedValues = ("a" :> "y") @@ ("b" :> Deleted)


(***************************************************************************)
(* The predicate engine on predicate trees: one action with the tree as    *)
(* its when clause goes through processActions, which skips it exactly     *)
(* when BoolExpr.Evaluate returns false                                    *)
(***************************************************************************)
MaxDepth == 2

QueryLeaf(k, p) == Expr(EmptyFcn, (k :> PF(<<p>>)), EmptyFcn, <<>>, <<>>, <<>>)

\* "or: []": the clause is there, with no sub-node
EmptyOr == [EmptyExpr EXCEPT !.OrPresent = TRUE]

EvalLeaves == {BodyLeaf("a", "x"), HeaderLeaf("X-Env", "prod"), QueryLeaf("q", "x")}

\* predicate trees of depth up to d
RECURSIVE ExprsUpTo(_)
ExprsUpTo(d) ==
    IF d = 0 THEN {EmptyExpr, EmptyOr} \cup EvalLeaves
    ELSE Only({ sub
                  \cup {Expr(EmptyFcn, EmptyFcn, EmptyFcn, <<e, l>>, <<>>, <<>>) :
                            e \in sub, l \in EvalLeaves}
                  \cup {Expr(EmptyFcn, EmptyFcn, EmptyFcn, <<>>, <<e, l>>, <<>>) :
                            e \in sub, l \in EvalLeaves}
                  \cup {Expr(EmptyFcn, EmptyFcn, EmptyFcn, <<>>, <<>>, <<e>>) : e \in sub}
                  \cup {Expr(("a" :> PF(<<"x">>)), EmptyFcn, EmptyFcn,
                              <<>>, <<e>>, <<HeaderLeaf("X-Env", "prod")>>) : e \in sub} :
                sub \in {ExprsUpTo(d - 1)} })

EvalBodies == {NilMap, Obj(EmptyFcn), Obj(("a" :> "x")), Obj(("a" :> "y"))}
EvalHeaders == {EmptyFcn, ("x-env" :> "prod"), ("X-ENV" :> "dev")}
EvalQueries == {EmptyFcn, ("q" :> "x")}

\* the action of the pass: its when clause is nil or a tree; it deletes b
InitEval ==
    /\ ops \in {<<Action(w, "", EmptyFcn, EmptyFcn, {"b"}, FALSE)>> :
                   w \in {<<>>} \cup {<<e>> : e \in ExprsUpTo(MaxDepth)}}
    /\ templates = compileSlots(ops)
    /\ data \in EvalBodies
    /\ received = data
    /\ headers \in EvalHeaders
    /\ query \in EvalQueries
    /\ appliedValues = EmptyFcn /\ anyApplied = FALSE /\ opIdx = 1 /\ ppc = "loop"
    /\ evaluated = <<>> /\ executed = <<>>
    /\ bodyBefore = data /\ lastTmpl = "none"
    /\ cfgRoutes = <<>> /\ cfgState = "off" /\ cfgErr = ""
    /\ routes = <<>> /\ hpc = "off" /\ req = <<>> /\ fwd = <<>> /\ ctxRoutes = <<>>
    /\ resp = <<>> /\ out = <<>> /\ pipelineRuns = 0
    /\ sRoutes = <<>> /\ upstream = <<>> /\ upstreamErr = "none" /\ wpc = "off"
    /\ pending = <<>> /\ readerClosed = FALSE /\ writerClosed = "open"
    /\ bodyClosed = FALSE /\ consumed = <<>> /\ scanned = <<>> /\ emitted = <<>>
    /\ failedAt = <<>> /\ txns = <<>> /\ logHeaders = <<>> /\ logged = <<>>
    /\ evalArgs = <<>> /\ evalResults = <<>>
    /\ files = <<>> /\ loadStack = <<>> /\ watchedFiles = <<>> /\ loadState = "off"

SpecEval == InitEval /\ [][PipeNext]_vars

\* the pass over the one action is over
evalDone == ppc = "returned" /\ Len(ops) = 1

\* what Evaluate returned for the action's when clause
evalResult == executed = <<1>>

\* the leaf matchers of node b hold: every named field is there and matches
leafHolds(b, body, h, q) ==
    /\ \A k \in DOMAIN b.Body :
          k \in DOMAIN body.m /\ Matches(b.Body[k], Sprintf(body.m[k]))
    /\ \A k \in DOMAIN b.Query : k \in DOMAIN q /\ Matches(b.Query[k], q[k])
    /\ \A k \in DOMAIN b.Headers :
          \E hk \in DOMAIN h : Lower(hk) = Lower(k) /\ Matches(b.Headers[k], h[hk])

\* the truth value of the tree b in boolean logic
RECURSIVE Truth(_, _, _, _)
Truth(b, body, h, q) ==
    /\ leafHolds(b, body, h, q)
    /\ \A i \in 1..Len(b.And) : Truth(b.And[i], body, h, q)
    /\ b.OrPresent => \E i \in 1..Len(b.Or) : Truth(b.Or[i], body, h, q)
    /\ b.Not # <<>> => ~Truth(b.Not[1], body, h, q)

\* the nodes of the tree b
RECURSIVE nodesOf(_)
nodesOf(b) ==
    {b} \cup UNION {nodesOf(b.And[i]) : i \in 1..Len(b.And)}
        \cup UNION {nodesOf(b.Or[i]) : i \in 1..Len(b.Or)}
        \cup UNION {nodesOf(b.Not[i]) : i \in 1..Len(b.Not)}

\* no node of the tree has an or clause without sub-nodes
noEmptyOr(b) == \A n \in nodesOf(b) : n.OrPresent => Len(n.Or) > 0

C24_OrNeedsTrueSubnode ==
    (evalDone /\ ops[1].When # <<>>) =>
        /\ (ops[1].When[1].OrPresent /\ evalResult)
              => \E i \in 1..Len(ops[1].When[1].Or) :
                    Evaluate(<<ops[1].When[1].Or[i]>>, received, headers, query)
        /\ \A n \in nodesOf(ops[1].When[1]) :
              (n.OrPresent /\ Evaluate(<<n>>, received, headers, query))
                  => \E i \in 1..Len(n.Or) :
                        Evaluate(<<n.Or[i]>>, received, headers, query)


\* node b has a leaf matcher on a field that the input lacks
absentField(b, body, h, q) ==
    \/ \E k \in DOMAIN b.Body : k \notin DOMAIN body.m
    \/ \E k \in DOMAIN b.Query : k \notin DOMAIN q
    \/ \E k \in DOMAIN b.Headers : \A hk \in DOMAIN h : Lower(hk) # Lower(k)

\* node b has leaf matchers only
leafOnly(b) == Len(b.And) = 0 /\ Len(b.Or) = 0 /\ ~b.OrPresent /\ b.Not = <<>>

\* node b is a not clause around a node with leaf matchers only
notOfLeaf(b) ==
    /\ DOMAIN b.Body = {} /\ DOMAIN b.Query = {} /\ DOMAIN b.Headers = {}
    /\ Len(b.And) = 0 /\ Len(b.Or) = 0 /\ ~b.OrPresent
    /\ b.Not # <<>> /\ leafOnly(b.Not[1])

(***************************************************************************)
(* C25: a leaf matcher on a field that the corresponding input (body key,  *)
(* query parameter, header) lacks makes its node evaluate false, it is not *)
(* skipped; a not clause around such a leaf evaluates true.                *)
(***************************************************************************)
C25_AbsentFieldIsNonMatch ==
    (evalDone /\ ops[1].When # <<>>) =>
        /\ absentField(ops[1].When[1], received, headers, query) => ~evalResult
        /\ (notOfLeaf(ops[1].When[1])
            /\ absentField(ops[1].When[1].Not[1], received, headers, query))
              => evalResult
        /\ \A n \in nodesOf(ops[1].When[1]) :
              absentField(n, received, headers, query)
                  => ~Evaluate(<<n>>, received, headers, query)

\* {not: {body: {a: x}}} on a body without the key a was evaluated true
C25_Witness ==
    /\ evalDone /\ evalResult
    /\ ops[1].When = <<Expr(EmptyFcn, EmptyFcn, EmptyFcn, <<>>, <<>>,
                             <<BodyLeaf("a", "x")>>)>>
    /\ received = Obj(EmptyFcn)


\* a node without leaf matchers and without operators
emptyNode(b) ==
    /\ DOMAIN b.Body = {} /\ DOMAIN b.Query = {} /\ DOMAIN b.Headers = {}
    /\ Len(b.And) = 0 /\ Len(b.Or) = 0 /\ ~b.OrPresent /\ b.Not = <<>>

(***************************************************************************)
(* C26: Evaluate on an absent (nil) predicate and on a node without leaf   *)
(* matchers and operators returns true for every body, header map and      *)
(* query map; an action without a when clause is never skipped.            *)
(***************************************************************************)
C26_NoPredicateAlwaysMatches ==
    (evalDone /\ (ops[1].When = <<>> \/ emptyNode(ops[1].When[1])))
        => evalResult /\ evaluated = <<1>>

\* the action without a when clause ran on a null body with a header and a
\* query parameter
C26_Witness ==
    /\ evalDone /\ evalResult /\ ops[1].When = <<>>
    /\ received = NilMap /\ headers = ("X-ENV" :> "dev") /\ query = ("q" :> "x")


\* spellings of one header name
HeaderNames == {"X-Env", "X-ENV", "x-env"}

\* the map m with the keys that spell the header name written as name
recaseMap(m, name) ==
    [k2 \in {IF k \in HeaderNames THEN name ELSE k : k \in DOMAIN m} |->
        m[CHOOSE k \in DOMAIN m : (IF k \in HeaderNames THEN name ELSE k) = k2]]

\* the tree b with the header name written as name in every header matcher
RECURSIVE recaseExpr(_, _)
recaseExpr(b, name) ==
    [b EXCEPT !.Headers = recaseMap(b.Headers, name),
              !.And = [i \in 1..Len(b.And) |-> recaseExpr(b.And[i], name)],
              !.Or = [i \in 1..Len(b.Or) |-> recaseExpr(b.Or[i], name)],
              !.Not = [i \in 1..Len(b.Not) |-> recaseExpr(b.Not[i], name)]]

(***************************************************************************)
(* C27: the result of a header predicate does not depend on the letter     *)
(* case of the header name, neither as written in the predicate nor as     *)
(* present in the header map: changing only the case of a header key       *)
(* never changes Evaluate's result.                                        *)
(***************************************************************************)
C27_HeaderNameCaseIrrelevant ==
    (evalDone /\ ops[1].When # <<>>) =>
        \A name \in HeaderNames :
            /\ Evaluate(ops[1].When, received, recaseMap(headers, name), query)
                  = evalResult
            /\ Evaluate(<<recaseExpr(ops[1].When[1], name)>>, received, headers, query)
                  = evalResult

\* the predicate names X-Env, the header map has x-env: it matched
C27_Witness ==
    /\ evalDone /\ evalResult
    /\ ops[1].When = <<HeaderLeaf("X-Env", "prod")>>
    /\ headers = ("x-env" :> "prod")


\* the action specifies both when and when_any
hasWhenAndWhenAny(op) == op.When # <<>> /\ Len(op.WhenAny) > 0

\* a route of the file has an action with both
fileHasWhenAndWhenAny(rs) ==
    \E i \in 1..Len(rs) :
        \/ \E j \in 1..Len(rs[i].OnRequest) : hasWhenAndWhenAny(rs[i].OnRequest[j])
        \/ \E j \in 1..Len(rs[i].OnResponse) : hasWhenAndWhenAny(rs[i].OnResponse[j])

\* loading a file with such an action ends in an error
loadRejectsWhenAndWhenAny ==
    (cfgState = "parsed" /\ cfgState' # "parsed" /\ fileHasWhenAndWhenAny(cfgRoutes))
        => cfgState' = "invalid" /\ cfgErr' # ""

\* no loaded route has such an action, and validateAction's error for one
\* names the conflict
loadedWithoutWhenAndWhenAny ==
    /\ cfgState \in {"loaded", "running"} => ~fileHasWhenAndWhenAny(cfgRoutes)
    /\ \A op \in CfgActionMenu :
          hasWhenAndWhenAny(op)
              => validateAction(op).err = "cannot specify both when and when_any"

(***************************************************************************)
(* C28: validation of an action that specifies both when and when_any      *)
(* fails with a configuration error, so loading never yields a route with  *)
(* such an action and the pipeline never runs one.                         *)
(***************************************************************************)
C28_WhenAndWhenAnyRejected ==
    []loadedWithoutWhenAndWhenAny /\ [][loadRejectsWhenAndWhenAny]_vars

\* the file's second request action has both: Load failed on it
C28_Witness ==
    /\ cfgState = "invalid"
    /\ cfgErr = "cannot specify both when and when_any"
    /\ Len(cfgRoutes[1].OnRequest) = 2
    /\ ~hasWhenAndWhenAny(cfgRoutes[1].OnRequest[1])
    /\ hasWhenAndWhenAny(cfgRoutes[1].OnRequest[2])


\* the Content-Type values that name an event-stream
EventStreamTypes == {"text/event-stream", "text/event-stream; charset=utf-8"}

\* ModifyResponse has returned or crashed
responseHandled == hpc \in {"responded", "panic"} /\ resp # <<>>

\* the response was handed to the streaming processor: the worker runs with
\* the routes of the transaction and takes the body line by line
handedToStreaming ==
    /\ hpc = "responded" /\ out.streaming /\ out.err = ""
    /\ wpc # "off"
    /\ sRoutes = routesAt(routes, ctxRoutes)
    /\ out.Body = resp.Body
    /\ scanned \o upstream = resp.Lines

\* the response took the whole-body path: no worker, the body read at once
wholeBodyPath ==
    /\ hpc = "responded" => ~out.streaming
    /\ wpc = "off" /\ scanned = <<>> /\ upstream = <<>>

(***************************************************************************)
(* C29: a response whose content type indicates an event-stream is always  *)
(* handed to the streaming processor and never read whole into memory,     *)
(* whether or not a route matched and whether or not a matched route has   *)
(* response actions; every other response takes the whole-body path.       *)
(***************************************************************************)
C29_EventStreamAlwaysStreams ==
    responseHandled =>
        IF resp.ContentType \in EventStreamTypes THEN handedToStreaming
        ELSE wholeBodyPath

\* no route matched the request and the event-stream response is streamed
\* all the same
C29_Witness ==
    /\ handedToStreaming /\ Len(routes) > 0 /\ ctxRoutes = <<>> /\ sRoutes = <<>>
    /\ resp.ContentType = "text/event-stream; charset=utf-8"
    /\ wpc = "done" /\ consumed = <<PfxAtom, DoneText, LfAtom>>


(***************************************************************************)
(* Two transactions whose passes over the same operations interleave       *)
(***************************************************************************)
MaxParOps == 2

Txns == {1, 2}
otherTxn(t) == 3 - t

\* The actions the shared route is built from
ParMenu == {
    Action(When(HeaderLeaf("X-Env", "prod")), "", ("a" :> "y"), EmptyFcn, {}, FALSE),
    Action(When(BodyLeaf("a", "x")), "", EmptyFcn, ("b" :> "y"), {}, TRUE),
    Action(When(BodyLeaf("b", ".*")), "", EmptyFcn, EmptyFcn, {"b"}, FALSE),
    Action(NoWhen, "tSet", ("a" :> "y"), EmptyFcn, {"b"}, FALSE),
    Action(NoWhen, "", ("b" :> "x"), EmptyFcn, {}, FALSE) }

\* the locals of one processActions call and the data it was handed
TxnStart(d, h) ==
    [data |-> d, headers |-> h, appliedValues |-> EmptyFcn, anyApplied |-> FALSE,
     opIdx |-> 1, ppc |-> "loop", received |-> d, overlapped |-> FALSE]

TxnPassState(t) ==
    [data |-> txns[t].data, appliedValues |-> txns[t].appliedValues,
     anyApplied |-> txns[t].anyApplied, panic |-> FALSE, ch |-> EmptyFcn]

\* history: this transaction steps while the other one is inside its loop
midPass(t) == txns[t].ppc = "loop" /\ txns[t].opIdx > 1
overlaps(t) == txns[t].overlapped \/ midPass(otherTxn(t))

\* an iteration of transaction t whose predicate does not match
TxnSkip(t) ==
    /\ txns[t].ppc = "loop" /\ txns[t].opIdx <= Len(ops)
    /\ opSkipped(ops[txns[t].opIdx], txns[t].data, txns[t].headers, NoQuery)
    /\ txns' = [txns EXCEPT ![t].opIdx = @ + 1, ![t].overlapped = overlaps(t)]
    /\ UNCHANGED <<pipeVars, cfgVars, httpVars, streamVars, logVars, callVars, loadVars>>

\* the iteration empties the Merge map of the action it has applied
TxnRunWritesAction(t) ==
    /\ txns[t].ppc = "loop" /\ txns[t].opIdx <= Len(ops)
    /\ ~opSkipped(ops[txns[t].opIdx], txns[t].data, txns[t].headers, NoQuery)
    /\ \E n \in {runOp(ops[txns[t].opIdx], templates[txns[t].opIdx], TxnPassState(t))} :
           txns' = [txns EXCEPT
               ![t].data = n.data,
               ![t].appliedValues = n.appliedValues,
               ![t].anyApplied = n.anyApplied,
               ![t].ppc = IF n.panic THEN "panic"
                          ELSE IF opStops(ops[txns[t].opIdx]) THEN "returned" ELSE "loop",
               ![t].opIdx = IF n.panic \/ opStops(ops[txns[t].opIdx]) THEN @ ELSE @ + 1,
               ![t].overlapped = overlaps(t)]
    /\ ops' = [ops EXCEPT ![txns[t].opIdx].Merge = EmptyFcn]
    /\ UNCHANGED <<templates, data, headers, query, appliedValues, anyApplied, opIdx, ppc,
                   evaluated, executed, received, bodyBefore, lastTmpl>>
    /\ UNCHANGED <<cfgVars, httpVars, streamVars, logVars, callVars, loadVars>>

\* an iteration of transaction t whose predicate matches; operations and
\* templates are only read
TxnRun(t) ==
    /\ txns[t].ppc = "loop" /\ txns[t].opIdx <= Len(ops)
    /\ ~opSkipped(ops[txns[t].opIdx], txns[t].data, txns[t].headers, NoQuery)
    /\ \E n \in {runOp(ops[txns[t].opIdx], templates[txns[t].opIdx], TxnPassState(t))} :
           txns' = [txns EXCEPT
               ![t].data = n.data,
               ![t].appliedValues = n.appliedValues,
               ![t].anyApplied = n.anyApplied,
               ![t].ppc = IF n.panic THEN "panic"
                          ELSE IF opStops(ops[txns[t].opIdx]) THEN "returned" ELSE "loop",
               ![t].opIdx = IF n.panic \/ opStops(ops[txns[t].opIdx]) THEN @ ELSE @ + 1,
               ![t].overlapped = overlaps(t)]
    /\ UNCHANGED <<pipeVars, cfgVars, httpVars, streamVars, logVars, callVars, loadVars>>

\* the range of transaction t is exhausted
TxnReturn(t) ==
    /\ txns[t].ppc = "loop" /\ txns[t].opIdx > Len(ops)
    /\ txns' = [txns EXCEPT ![t].ppc = "returned", ![t].overlapped = overlaps(t)]
    /\ UNCHANGED <<pipeVars, cfgVars, httpVars, streamVars, logVars, callVars, loadVars>>

TxnSkipSome == \E t \in Txns : TxnSkip(t)
TxnRunSome == \E t \in Txns : TxnRun(t)
TxnReturnSome == \E t \in Txns : TxnReturn(t)

ParNext == TxnSkipSome \/ TxnRunSome \/ TxnReturnSome

\* a validated, compiled route and two transactions about to process it
InitPar ==
    /\ ops \in SeqsUpTo(ParMenu, MaxParOps)
    /\ templates = compileSlots(ops)
    /\ txns \in [Txns -> {TxnStart(d, h) : d \in PipeBodies, h \in PipeHeaders}]
    /\ data = NilMap /\ received = NilMap /\ headers = EmptyFcn /\ query = EmptyFcn
    /\ appliedValues = EmptyFcn /\ anyApplied = FALSE /\ opIdx = 1 /\ ppc = "off"
    /\ evaluated = <<>> /\ executed = <<>>
    /\ bodyBefore = NilMap /\ lastTmpl = "none"
    /\ cfgRoutes = <<>> /\ cfgState = "off" /\ cfgErr = ""
    /\ routes = <<>> /\ hpc = "off" /\ req = <<>> /\ fwd = <<>> /\ ctxRoutes = <<>>
    /\ resp = <<>> /\ out = <<>> /\ pipelineRuns = 0
    /\ sRoutes = <<>> /\ upstream = <<>> /\ upstreamErr = "none" /\ wpc = "off"
    /\ pending = <<>> /\ readerClosed = FALSE /\ writerClosed = "open"
    /\ bodyClosed = FALSE /\ consumed = <<>> /\ scanned = <<>> /\ emitted = <<>>
    /\ failedAt = <<>> /\ logHeaders = <<>> /\ logged = <<>>
    /\ evalArgs = <<>> /\ evalResults = <<>>
    /\ files = <<>> /\ loadStack = <<>> /\ watchedFiles = <<>> /\ loadState = "off"

SpecPar == InitPar /\ [][ParNext]_vars

\* no step of a transaction changes the operations or the compiled templates
routesReadOnly == ops' = ops /\ templates' = templates

\* a finished transaction has the body and applied values that processActions
\* gives for its own input on these operations
txnAsAlone(t) ==
    txns[t].ppc # "loop" =>
        \E r \in {processActions(txns[t].received, txns[t].headers, NoQuery,
                                 ops, templates)} :
            IF r.panic THEN txns[t].ppc = "panic"
            ELSE /\ txns[t].ppc = "returned"
                 /\ txns[t].data = r.data
                 /\ txns[t].appliedValues = r.appliedValues
                 /\ txns[t].anyApplied = r.anyApplied

allTxnsAsAlone == \A t \in Txns : txnAsAlone(t)

(***************************************************************************)
(* C30: processing a transaction never writes to the route's actions,      *)
(* predicates, patterns or compiled templates; for every interleaving of   *)
(* two transactions on the same routes, each one's resulting body and      *)
(* applied values are those it produces when run alone.                    *)
(***************************************************************************)
C30_TransactionsIndependent == []allTxnsAsAlone /\ [][routesReadOnly]_vars

\* both transactions ran to the end, each stepping while the other was inside
\* its loop, with different inputs and different results
C30_Witness ==
    /\ \A t \in Txns : txns[t].ppc = "returned" /\ txns[t].overlapped
                       /\ txns[t].anyApplied
    /\ txns[1].received # txns[2].received
    /\ txns[1].data # txns[2].data
    /\ Len(ops) = MaxParOps


(***************************************************************************)
(* Headers as logged: sanitizeHeaders, isAuthHeader, headersJSON           *)
(***************************************************************************)
MaxHeaders == 2

Redacted == "[REDACTED]"
NoLog == <<>>

\* the key is compared as written
isAuthHeaderExactCase(key) ==
    key \in {"authorization", "x-api-key", "api-key", "x-auth-token"}

\* isAuthHeader(key): the lower-cased key is one of the four names
isAuthHeader(key) ==
    \E l \in {Lower(key)} :
        l = "authorization" \/ l = "x-api-key" \/ l = "api-key" \/ l = "x-auth-token"

\* sanitizeHeaders(headers): a new map, auth headers with the marker alone
sanitizeHeaders(hdrs) ==
    [k \in DOMAIN hdrs |-> IF isAuthHeader(k) THEN <<Redacted>> ELSE hdrs[k]]

\* the flattening loop of headersJSON: a single value stands for itself
flattened(safe) ==
    [k \in DOMAIN safe |-> IF Len(safe[k]) = 1 THEN safe[k][1] ELSE safe[k]]

\* json.MarshalIndent of a map: an indented object text, keys sorted, so the
\* text is given by the map
MarshalIndent(m) == [kind |-> "object", obj |-> m, indent |-> "  "]

\* headersJSON(headers)
headersJSON(hdrs) ==
    Only({MarshalIndent(flattened(safe)) : safe \in {sanitizeHeaders(hdrs)}})

\* header names and values of the logged maps
LogNames == {"Authorization", "x-api-key", "API-KEY", "X-Auth-Token",
             "Content-Type", "Proxy-Authorization"}
LogValues == {<<>>, <<"s1">>, <<"s2">>, <<"s1", "s2">>}
LogHeaderMaps ==
    UNION {[ks -> LogValues] : ks \in {n \in SUBSET LogNames : Cardinality(n) <= MaxHeaders}}

\* logger.Debug(..., "headers", headersJSON(req.Header)): the map is read only
LogHeaders ==
    /\ logged = NoLog
    /\ logged' = headersJSON(logHeaders)
    /\ logHeaders' = logHeaders
    /\ UNCHANGED <<pipeVars, cfgVars, httpVars, streamVars, txns, callVars, loadVars>>

LogNext == LogHeaders

InitLog ==
    /\ logHeaders \in LogHeaderMaps /\ logged = NoLog
    /\ ops = <<>> /\ templates = <<>>
    /\ data = NilMap /\ received = NilMap /\ headers = EmptyFcn /\ query = EmptyFcn
    /\ appliedValues = EmptyFcn /\ anyApplied = FALSE /\ opIdx = 1 /\ ppc = "off"
    /\ evaluated = <<>> /\ executed = <<>>
    /\ bodyBefore = NilMap /\ lastTmpl = "none"
    /\ cfgRoutes = <<>> /\ cfgState = "off" /\ cfgErr = ""
    /\ routes = <<>> /\ hpc = "off" /\ req = <<>> /\ fwd = <<>> /\ ctxRoutes = <<>>
    /\ resp = <<>> /\ out = <<>> /\ pipelineRuns = 0
    /\ sRoutes = <<>> /\ upstream = <<>> /\ upstreamErr = "none" /\ wpc = "off"
    /\ pending = <<>> /\ readerClosed = FALSE /\ writerClosed = "open"
    /\ bodyClosed = FALSE /\ consumed = <<>> /\ scanned = <<>> /\ emitted = <<>>
    /\ failedAt = <<>> /\ txns = <<>>
    /\ evalArgs = <<>> /\ evalResults = <<>>
    /\ files = <<>> /\ loadStack = <<>> /\ watchedFiles = <<>> /\ loadState = "off"

SpecLog == InitLog /\ [][LogNext]_vars

\* the spellings of the four credential names among the names of the model
CredentialNames == {"Authorization", "x-api-key", "API-KEY", "X-Auth-Token"}

\* the sanitised form: the marker for every credential header, the input's
\* values for every other header, no header added or dropped
sanitisedRight(hdrs, safe) ==
    /\ DOMAIN safe = DOMAIN hdrs
    /\ \A k \in DOMAIN hdrs :
           IF k \in CredentialNames THEN safe[k] = <<Redacted>>
           ELSE safe[k] = hdrs[k]

\* two header maps that differ at most in the values of credential headers
sameButCredentials(h1, h2) ==
    /\ DOMAIN h1 = DOMAIN h2
    /\ \A k \in DOMAIN h1 : k \notin CredentialNames => h1[k] = h2[k]

\* the log text of the map is the text of every map that differs from it
\* only in credential values
logHidesCredentials ==
    \A h2 \in LogHeaderMaps :
        sameButCredentials(logHeaders, h2) => headersJSON(h2) = logged

loggedRight ==
    logged # NoLog =>
        /\ sanitisedRight(logHeaders, sanitizeHeaders(logHeaders))
        /\ \A k \in DOMAIN logHeaders \cap CredentialNames : logged.obj[k] = Redacted
        /\ logHidesCredentials

inputMapKept == logHeaders' = logHeaders

(***************************************************************************)
(* C31: the sanitised form used for logging has the redaction marker in    *)
(* place of the value of every header named authorization, x-api-key,      *)
(* api-key or x-auth-token in any letter case, leaves the other headers    *)
(* and the input map unchanged, and header maps that differ only in those  *)
(* values give the same log output.                                        *)
(***************************************************************************)
C31_CredentialsRedacted == []loggedRight /\ [][inputMapKept]_vars

\* a map with a credential header in upper case carrying two values and
\* another header has been logged
C31_Witness ==
    /\ logged # NoLog
    /\ DOMAIN logHeaders = {"API-KEY", "Proxy-Authorization"}
    /\ logHeaders["API-KEY"] = <<"s1", "s2">>
    /\ logged.obj["API-KEY"] = Redacted
    /\ logged.obj["Proxy-Authorization"] = "s1"


\* the matched routes that declare a target path, in declaration order
rewritingIndices(rq, rs) ==
    SelectSeq(matchingIndices(rq, rs), LAMBDA i : rs[i].TargetPath # "")

\* the target path of the last of them, the path as received without one
lastTargetPath(rq, rs) ==
    IF rewritingIndices(rq, rs) = <<>> THEN rq.Path
    ELSE rs[rewritingIndices(rq, rs)[Len(rewritingIndices(rq, rs))]].TargetPath

\* ModifyRequest has returned
requestDone == hpc \in {"requested", "responded"}

someKeyRecorded == DOMAIN appliedValues # {}

(***************************************************************************)
(* C33: processActions returns changed = true if and only if at least one  *)
(* non-skipped action recorded at least one key; in particular the changed *)
(* flag is false whenever the returned applied-values map is empty.        *)
(***************************************************************************)
C33_ChangedIffRecorded == ppc = "returned" => (anyApplied <=> someKeyRecorded)


\* a step that ran the action at opIdx without a crash
actionRan == executed' # executed /\ ppc' # "panic"

\* the object the sub-steps of the action start from: what its template
\* rendered when it succeeded, else the body as it was
templateSucceeded == lastTmpl' \in {"object", "null"}
bodyAfterTemplate ==
    IF templateSucceeded THEN Render(templates[opIdx], data).text.obj ELSE data.m

\* defaults for absent keys, then merges over them, then the deletions
withDefaults(m, op) ==
    [k \in DOMAIN m \cup DOMAIN op.Default |-> IF k \in DOMAIN m THEN m[k] ELSE op.Default[k]]
withMerges(m, op) ==
    [k \in DOMAIN m \cup DOMAIN op.Merge |-> IF k \in DOMAIN op.Merge THEN op.Merge[k] ELSE m[k]]
withoutDeleted(m, op) == [k \in DOMAIN m \ op.Delete |-> m[k]]

subStepsInOrder(op) ==
    /\ data'.m = withoutDeleted(withMerges(withDefaults(bodyAfterTemplate, op), op), op)
    /\ \A k \in DOMAIN op.Default \cap DOMAIN op.Merge :
          k \notin op.Delete => k \in DOMAIN data'.m /\ data'.m[k] = op.Merge[k]
    /\ \A k \in DOMAIN op.Merge \cap op.Delete :
          /\ k \notin DOMAIN data'.m
          /\ k \in DOMAIN appliedValues' /\ appliedValues'[k] = Deleted

orderKept == actionRan => subStepsInOrder(ops[opIdx])

(***************************************************************************)
(* C34: within one action that is not skipped the sub-steps are applied in *)
(* the order template, default, merge, delete: a key listed in both        *)
(* default and merge ends with the merge value, and a key listed in both   *)
(* merge and delete of the same action is absent from the body afterwards  *)
(* and reported as deleted in applied-values.                              *)
(***************************************************************************)
C34_SubStepOrder == [][orderKept]_vars

\* template {"b":"y"}, default a, merge a and b, delete b on {"b":"x"}: a has
\* the merge value, b is gone and recorded as deleted
C34_Witness ==
    /\ ppc = "returned" /\ executed = <<1>> /\ Len(ops) = 1
    /\ ops[1] = Action(NoWhen, "tSet", ("a" :> "y") @@ ("b" :> "x"), ("a" :> "x"), {"b"}, FALSE)
    /\ received = Obj(("b" :> "x"))
    /\ data = Obj(("a" :> "y"))
    /\ appliedValues = ("a" :> "y") @@ ("b" :> Deleted)


(***************************************************************************)
(* BoolExpr.Evaluate called again and again on the same arguments          *)
(***************************************************************************)
MaxCalls == 2

\* header maps, two of them with keys that differ only in letter case
CallHeaders ==
    {EmptyFcn, ("X-Env" :> "prod"), ("x-env" :> "dev"),
     ("X-Env" :> "prod") @@ ("x-env" :> "dev"),
     ("X-ENV" :> "dev") @@ ("x-env" :> "prod")}
CallNodes == {<<>>} \cup {<<e>> : e \in ExprsUpTo(1)}
CallBodies == {Obj(EmptyFcn), Obj(("a" :> "x"))}

\* b.Evaluate(body, headers, query): one of the results the range over the
\* header map allows
EvaluateCall ==
    /\ Len(evalResults) < MaxCalls
    /\ \E r \in EvaluateSet(evalArgs.node, evalArgs.body, evalArgs.headers, evalArgs.query) :
          evalResults' = Append(evalResults, r)
    /\ UNCHANGED evalArgs
    /\ UNCHANGED <<pipeVars, cfgVars, httpVars, streamVars, txns, logVars, loadVars>>

CallNext == EvaluateCall

InitCall ==
    /\ evalArgs \in {[node |-> n, body |-> b, headers |-> h, query |-> EmptyFcn] :
                        n \in CallNodes, b \in CallBodies, h \in CallHeaders}
    /\ evalResults = <<>>
    /\ files = <<>> /\ loadStack = <<>> /\ watchedFiles = <<>> /\ loadState = "off"
    /\ ops = <<>> /\ templates = <<>>
    /\ data = NilMap /\ received = NilMap /\ headers = EmptyFcn /\ query = EmptyFcn
    /\ appliedValues = EmptyFcn /\ anyApplied = FALSE /\ opIdx = 1 /\ ppc = "off"
    /\ evaluated = <<>> /\ executed = <<>>
    /\ bodyBefore = NilMap /\ lastTmpl = "none"
    /\ cfgRoutes = <<>> /\ cfgState = "off" /\ cfgErr = ""
    /\ routes = <<>> /\ hpc = "off" /\ req = <<>> /\ fwd = <<>> /\ ctxRoutes = <<>>
    /\ resp = <<>> /\ out = <<>> /\ pipelineRuns = 0
    /\ sRoutes = <<>> /\ upstream = <<>> /\ upstreamErr = "none" /\ wpc = "off"
    /\ pending = <<>> /\ readerClosed = FALSE /\ writerClosed = "open"
    /\ bodyClosed = FALSE /\ consumed = <<>> /\ scanned = <<>> /\ emitted = <<>>
    /\ failedAt = <<>> /\ txns = <<>> /\ logHeaders = <<>> /\ logged = <<>>

SpecCall == InitCall /\ [][CallNext]_vars

(***************************************************************************)
(* C35: BoolExpr.Evaluate is deterministic: for the same node, body,       *)
(* header map and query map it always returns the same result, also when   *)
(* the header map holds two keys that differ only in letter case and carry *)
(* different values.                                                       *)
(***************************************************************************)
C35_EvaluateDeterministic ==
    \A i \in DOMAIN evalResults : \A j \in DOMAIN evalResults :
        evalResults[i] = evalResults[j]


\* the worker has returned: both deferred closes have run
exitClosesBoth == wpc = "done" => (writerClosed # "open" /\ bodyClosed)

\* the consumer has every line of the upstream and its next Read is a clean
\* end-of-stream
cleanEndReceived ==
    /\ wpc = "done" /\ upstream = <<>> /\ failedAt = <<>>
    /\ Len(emitted) = Len(scanned)
    /\ \A i \in 1..Len(scanned) : oneLineOf(scanned[i], emitted[i])
    /\ consumed = concatAll(emitted)
    /\ ~readerClosed /\ pipeRead = "EOF"

\* the consumer stopped reading, the upstream failed, or the worker crashed
notTheCase == readerClosed \/ upstreamErr # "none" \/ wpc = "panic"

objectBodyReceived == req.Body # <<>> /\ req.Body[1].kind = "object"

\* no route matched, or no matched route has request actions, or every
\* request action of the matched routes is skipped on the body as received
noRequestActionRuns ==
    \A k \in 1..Len(ctxRoutes) :
        \A i \in 1..Len(routes[ctxRoutes[k]].Compiled[1].OnRequest) :
            opSkipped(routes[ctxRoutes[k]].Compiled[1].OnRequest[i],
                      Unmarshal(req.Body[1]).data, EmptyFcn, NoQuery)

(***************************************************************************)
(* C37: when a request has a JSON-object body and no action changes it (no *)
(* route matches, or the matched routes have no request actions, or every  *)
(* action is skipped), the body bytes forwarded upstream are identical to  *)
(* the bytes received.                                                     *)
(***************************************************************************)
C37_UntouchedBodyVerbatim ==
    (requestDone /\ objectBodyReceived /\ noRequestActionRuns) => fwd.Body = req.Body


\* the number of bytes of a body, 0 for a nil body
bodyLength(b) == IF b = <<>> THEN 0 ELSE b[1].len

(***************************************************************************)
(* C38: given an inbound request whose ContentLength equals its body       *)
(* length, after ModifyRequest the request's ContentLength equals the      *)
(* number of bytes of the body that will be forwarded, for every body,     *)
(* JSON or not, shorter or longer than the 10 MiB read cap.                *)
(***************************************************************************)
C38_ContentLengthMatchesBody ==
    (requestDone /\ req.ContentLength = bodyLength(req.Body))
        => fwd.ContentLength = bodyLength(fwd.Body)


\* route i matches the method and the path of the request as it came in
matchesAsReceived(i) ==
    Matches(routes[i].Methods, req.Method) /\ Matches(routes[i].Paths, req.Path)

\* the matched set holds exactly such routes, whatever the path is by now
matchedSetAsReceived(idx) ==
    /\ \A k \in 1..Len(idx) : idx[k] \in 1..Len(routes) /\ matchesAsReceived(idx[k])
    /\ \A i \in 1..Len(routes) : matchesAsReceived(i) => \E k \in 1..Len(idx) : idx[k] = i

\* the request pipelines that ran are those of the routes matched as received
requestRanOnReceivedSet ==
    requestProcessed =>
        fwd.Body = <<ObjText(inOrder("request",
                                     routesAt(routes, matchingIndices(req, routes)),
                                     Obj(req.Body[1].obj), EmptyFcn, NoQuery).m)>>

(***************************************************************************)
(* C39: the set of routes matched for a request is computed once from the  *)
(* method and path as received: a target-path rewrite by an earlier        *)
(* matched route never adds or removes a later route, and the response     *)
(* phase uses that same set although the request path has been rewritten.  *)
(***************************************************************************)
C39_MatchedOnReceivedPath ==
    /\ requestDone => matchedSetAsReceived(ctxRoutes) /\ requestRanOnReceivedSet
    /\ hpc = "responded" =>
          /\ matchedSetAsReceived(out.indices)
          /\ out.streaming => \A k \in 1..Len(sRoutes) : sRoutes[k] = routes[out.indices[k]]

\* the first route rewrote /b to /a and merged c; the second, which matches
\* /a only, was not added for the request nor for the response
C39_Witness ==
    /\ hpc = "responded"
    /\ routes = <<RewrittenPathRoute, RequestOnlyRoute>>
    /\ req.Method = "POST" /\ req.Path = "/b" /\ fwd.Path = "/a"
    /\ ctxRoutes = <<1>> /\ out.indices = <<1>>
    /\ req.Body = <<ObjText(("a" :> "x"))>>
    /\ fwd.Body = <<ObjText(("a" :> "x") @@ ("c" :> "y"))>>

(***************************************************************************)
(* Config loading: loadConfigFile, expandIncludes, loadIncludeNode.        *)
(* A file is the list of the nodes expandIncludes walks in it, in order:   *)
(* nodes that are no include, and include nodes with their path. Each      *)
(* include node reads its file and walks it by a nested call, so the       *)
(* nesting of the calls is a stack of (file, position). Nothing in the     *)
(* code remembers which files are being expanded; the goroutine stack is   *)
(* the only limit of the nesting, and the runtime ends the process when    *)
(* it is exhausted.                                                        *)
(***************************************************************************)
MaxFileItems == 2
MaxStack == 3

ConfigPaths == {"main.yml", "a.yml"}
MissingPath == "none.yml"
IncludePaths == ConfigPaths \cup {MissingPath}

PlainNode == [kind |-> "plain", path |-> ""]
IncludeNode(p) == [kind |-> "include", path |-> p]
\* include: [a, b] - the path node is not a scalar
IncludeNotScalar == [kind |-> "includeNotScalar", path |-> ""]
FileNodes == {PlainNode, IncludeNotScalar} \cup {IncludeNode(p) : p \in IncludePaths}
\* a file yaml.Unmarshal rejects
Unparseable == <<[kind |-> "unparseable", path |-> ""]>>
FileContents ==
    UNION {[1..n -> FileNodes] : n \in 0..MaxFileItems} \cup {Unparseable}

readable(p) == p \in DOMAIN files
parses(p) == files[p] # Unparseable

\* watchList.Add
watchAdd(w, p) ==
    IF p = "" \/ \E i \in 1..Len(w) : w[i] = p THEN w ELSE Append(w, p)

topFrame == loadStack[Len(loadStack)]
topNodes == files[topFrame.file]
atNode == loadState = "loading" /\ topFrame.pos <= Len(topNodes)
topNode == topNodes[topFrame.pos]
advanced(stack) ==
    [stack EXCEPT ![Len(stack)] = [file |-> stack[Len(stack)].file,
                                   pos |-> stack[Len(stack)].pos + 1]]

\* loadConfigFile up to its call of expandIncludes on the root
loadConfigFile ==
    /\ loadState = "idle"
    /\ \E configPath \in IncludePaths :
          IF readable(configPath) /\ parses(configPath)
          THEN /\ loadStack' = <<[file |-> configPath, pos |-> 1]>>
               /\ loadState' = "loading"
          ELSE /\ loadStack' = <<>>
               /\ loadState' = "error"
    /\ UNCHANGED <<files, watchedFiles>>
    /\ UNCHANGED <<pipeVars, cfgVars, httpVars, streamVars, txns, logVars, callVars>>

\* expandIncludes on a node that is no include: nothing to load
expandPlain ==
    /\ atNode
    /\ topNode.kind = "plain"
    /\ loadStack' = advanced(loadStack)
    /\ UNCHANGED <<files, watchedFiles, loadState>>
    /\ UNCHANGED <<pipeVars, cfgVars, httpVars, streamVars, txns, logVars, callVars>>

\* loadIncludeNode returns an error, which every caller up to Load returns
loadIncludeNodeFails ==
    /\ atNode
    /\ \/ /\ topNode.kind = "includeNotScalar"
          /\ UNCHANGED watchedFiles
       \/ /\ topNode.kind = "include"
          /\ ~(readable(topNode.path) /\ parses(topNode.path))
          /\ watchedFiles' = watchAdd(watchedFiles, topNode.path)
    /\ loadStack' = <<>>
    /\ loadState' = "error"
    /\ UNCHANGED files
    /\ UNCHANGED <<pipeVars, cfgVars, httpVars, streamVars, txns, logVars, callVars>>

\* loadIncludeNode reads and parses the file and calls expandIncludes on its
\* root, whatever the files under expansion are
loadIncludeNode ==
    /\ atNode
    /\ topNode.kind = "include"
    /\ readable(topNode.path) /\ parses(topNode.path)
    /\ Len(loadStack) < MaxStack
    /\ watchedFiles' = watchAdd(watchedFiles, topNode.path)
    /\ loadStack' = Append(loadStack, [file |-> topNode.path, pos |-> 1])
    /\ UNCHANGED <<files, loadState>>
    /\ UNCHANGED <<pipeVars, cfgVars, httpVars, streamVars, txns, logVars, callVars>>

\* the same call with the goroutine stack exhausted: the runtime stops the
\* process (fatal error: stack overflow), no caller gets an error
loadIncludeNodeOverflows ==
    /\ atNode
    /\ topNode.kind = "include"
    /\ readable(topNode.path) /\ parses(topNode.path)
    /\ Len(loadStack) = MaxStack
    /\ watchedFiles' = watchAdd(watchedFiles, topNode.path)
    /\ loadState' = "stackOverflow"
    /\ UNCHANGED <<files, loadStack>>
    /\ UNCHANGED <<pipeVars, cfgVars, httpVars, streamVars, txns, logVars, callVars>>

\* expandIncludes returns nil at the end of a file: the include node is
\* replaced and the caller goes on; at the root, loadConfigFile decodes
expandReturn ==
    /\ loadState = "loading"
    /\ topFrame.pos > Len(topNodes)
    /\ IF Len(loadStack) = 1
       THEN /\ loadStack' = <<>>
            /\ loadState' = "config"
       ELSE /\ loadStack' = advanced(SubSeq(loadStack, 1, Len(loadStack) - 1))
            /\ UNCHANGED loadState
    /\ UNCHANGED <<files, watchedFiles>>
    /\ UNCHANGED <<pipeVars, cfgVars, httpVars, streamVars, txns, logVars, callVars>>

LoadNext ==
    \/ loadConfigFile
    \/ expandPlain
    \/ loadIncludeNodeFails
    \/ loadIncludeNode
    \/ loadIncludeNodeOverflows
    \/ expandReturn

InitLoad ==
    /\ files \in UNION {[ps -> FileContents] : ps \in SUBSET ConfigPaths}
    /\ loadStack = <<>> /\ watchedFiles = <<>> /\ loadState = "idle"
    /\ evalArgs = <<>> /\ evalResults = <<>>
    /\ ops = <<>> /\ templates = <<>>
    /\ data = NilMap /\ received = NilMap /\ headers = EmptyFcn /\ query = EmptyFcn
    /\ appliedValues = EmptyFcn /\ anyApplied = FALSE /\ opIdx = 1 /\ ppc = "off"
    /\ evaluated = <<>> /\ executed = <<>>
    /\ bodyBefore = NilMap /\ lastTmpl = "none"
    /\ cfgRoutes = <<>> /\ cfgState = "off" /\ cfgErr = ""
    /\ routes = <<>> /\ hpc = "off" /\ req = <<>> /\ fwd = <<>> /\ ctxRoutes = <<>>
    /\ resp = <<>> /\ out = <<>> /\ pipelineRuns = 0
    /\ sRoutes = <<>> /\ upstream = <<>> /\ upstreamErr = "none" /\ wpc = "off"
    /\ pending = <<>> /\ readerClosed = FALSE /\ writerClosed = "open"
    /\ bodyClosed = FALSE /\ consumed = <<>> /\ scanned = <<>> /\ emitted = <<>>
    /\ failedAt = <<>> /\ txns = <<>> /\ logHeaders = <<>> /\ logged = <<>>

SpecLoad == InitLoad /\ [][LoadNext]_vars

\* Load runs on one goroutine that nothing suspends: a step that can be
\* taken is taken
SpecLoadLive == InitLoad /\ [][LoadNext]_vars /\ WF_vars(LoadNext)

(***************************************************************************)
(* C40: config loading terminates, with a configuration or with an error,  *)
(* for every finite set of config files, files that include themselves or  *)
(* each other included.                                                    *)
(* Refuted: a file on an include cycle is loaded again at each level of    *)
(* the recursion, until the goroutine stack is exhausted and the runtime   *)
(* ends the process; Load returns neither a configuration nor an error.    *)
(***************************************************************************)
loadEnded == loadState \in {"config", "error"}
C40_LoadingTerminates == <>loadEnded

====
